---- MODULE Spec2Model ----
(***************************************************************************)
(* Model of the WorkWise rule-checking pipeline: the rule catalogue of     *)
(* rules/rules_impl.py, the RulesEngine of rules/engine.py, and the two    *)
(* document routes of routes/documents.py that drive it against the        *)
(* database.                                                               *)
(*                                                                         *)
(* Units.  Lengths are page points (integers).  Font sizes and line        *)
(* spacings are tenths of a point.  Rule weights and severity multipliers  *)
(* are tenths, so one error's penalty weight*multiplier is in hundredths;  *)
(* a rating is kept in tenths (100.0 is 1000), the precision round(x, 1)   *)
(* leaves.                                                                 *)
(***************************************************************************)
EXTENDS Integers, Sequences, FiniteSets, TLC

\* ------------------------------------------------------------------ bounds
\* Largest number of pages in a sampled document structure.
MaxPages == 2
\* An INSERT failure is tried at each of the first MaxFailIndex new rows.
MaxFailIndex == 2
\* Number of out-of-bounds blocks of the stress document (enough for the
\* total penalty to pass 100).
StressBlocks == 34
\* Characters of text in a sampled DOCX file.
TextChars == 5000
\* A sampled DOCX file has its text in 1..MaxParts paragraphs.
MaxParts == 10
\* Largest number of pages of a sampled PDF file.
MaxPdfPages == 2
\* Corner coordinates of the sampled bounding boxes are 0..MaxCoord.
MaxCoord == 2
\* Largest number of paths handed to process_batch.
MaxFiles == 3
\* DocumentCache.max_size_bytes, in units of the smallest cached file.
MaxCacheBytes == 5
\* MemoryCache.max_items.
MaxItems == 2
\* MemoryCache.set is explored while _access_order is shorter than this.
MaxOrderLen == 4

\* --------------------------------------------------------- python helpers
\* None for optional tuples / ids (bbox, block_id).
None == <<>>

RECURSIVE SumSeq(_)
SumSeq(s) == IF s = <<>> THEN 0 ELSE Head(s) + SumSeq(Tail(s))

RECURSIVE Flatten(_)
\* list.extend over a list of lists
Flatten(ss) == IF ss = <<>> THEN <<>> ELSE Head(ss) \o Flatten(Tail(ss))

Max(a, b) == IF a >= b THEN a ELSE b
\* TRUE, once the value of a loop variable has been computed: a loop computes
\* its variables in each iteration, not at the end
Computed(value) == value = value
Min(a, b) == IF a <= b THEN a ELSE b

\* --------------------------------------------------- document structures
\* Page geometry written by the parser (A4 in points).
PageWidth == 595
PageHeight == 842

Bbox(x0, y0, x1, y1) == [x0 |-> x0, y0 |-> y0, x1 |-> x1, y1 |-> y1]

Span(font, size10, color) ==
    [style |-> [font_name |-> font, font_size |-> size10, color |-> color]]

\* one block of the JSON structure; has_spacing = FALSE is avg_line_spacing
\* = null
Block(type, text, bbox, spans, hasSp, sp10) ==
    [block_id |-> None, block_type |-> type, text |-> text, bbox |-> bbox,
     spans |-> spans, has_spacing |-> hasSp, avg_line_spacing |-> sp10]

\* a paragraph that satisfies every rule of the catalogue
GoodBlock ==
    Block("paragraph", "Body", Bbox(85, 200, 500, 220),
          <<Span("Times New Roman", 140, "#000000")>>, TRUE, 182)
\* Scenario B: the paragraph's x1 is pageWidth + 50
WideBlock ==
    Block("paragraph", "Body", Bbox(85, 200, PageWidth + 50, 220),
          <<Span("Times New Roman", 140, "#000000")>>, TRUE, 182)
\* Scenario C: a span set in Comic Sans MS
ComicBlock ==
    Block("paragraph", "Body", Bbox(85, 200, 500, 220),
          <<Span("Comic Sans MS", 140, "#000000")>>, TRUE, 182)
\* a red 12pt span: one FontSize warning and one Color info
RedSmallBlock ==
    Block("paragraph", "Body", Bbox(85, 200, 500, 220),
          <<Span("Arial", 120, "#ff0000")>>, FALSE, 0)
\* a heading inside the expected band
HeadingBlock ==
    Block("heading", "Title", Bbox(85, 60, 500, 80),
          <<Span("Times New Roman", 160, "#000000")>>, FALSE, 0)
\* a heading inside the allowed band but below the expected one
LowHeadingBlock ==
    Block("heading", "Title", Bbox(85, 180, 500, 199),
          <<Span("Times New Roman", 160, "#000000")>>, FALSE, 0)
\* a footer block carrying the page number n as text
NumberBlock(txt) ==
    Block("footer", txt, Bbox(290, 800, 300, 812),
          <<Span("Times New Roman", 140, "#000000")>>, FALSE, 0)

\* The text of a block is one of a few sample strings.  "sup2" stands for
\* the one-character string of a superscript two, for which str.isdigit()
\* is true and int() raises ValueError.
IsDigit(txt) == txt \in {"1", "2", "3", "sup2"}
IntRaises(txt) == txt \notin {"1", "2", "3"}
IntOf(txt) == CASE txt = "1" -> 1 [] txt = "2" -> 2 [] txt = "3" -> 3 [] OTHER -> 0

\* the parser's block ids: page number and running index on the page
WithIds(n, blocks) ==
    [i \in 1..Len(blocks) |-> [blocks[i] EXCEPT !.block_id = <<n, i>>]]

Page(n, blocks) ==
    [info |-> [page_number |-> n, width |-> PageWidth, height |-> PageHeight],
     blocks |-> WithIds(n, blocks)]

NumberText(n) == CASE n = 1 -> "1" [] n = 2 -> "2" [] n = 3 -> "3" [] OTHER -> "Body"

\* sample page contents, as a function of the page's number
CleanContent(n) ==
    IF n = 1 THEN <<HeadingBlock, GoodBlock, NumberBlock(NumberText(n))>>
    ELSE <<GoodBlock, NumberBlock(NumberText(n))>>
WideContent(n) == <<HeadingBlock, WideBlock, NumberBlock(NumberText(n))>>
MixedContent(n) ==
    <<LowHeadingBlock, ComicBlock, RedSmallBlock, ComicBlock, WideBlock,
      NumberBlock("sup2")>>

ContentKinds == {"clean", "wide", "mixed"}
Content(kind, n) ==
    CASE kind = "clean" -> CleanContent(n)
      [] kind = "wide"  -> WideContent(n)
      [] OTHER          -> MixedContent(n)

\* A decoded structure_json.  kind "dict" is a JSON object with a pages
\* list; "nondict" is valid JSON that is not an object (a list, a number),
\* on which every document_structure.get raises AttributeError.
DictStructure(pages) == [kind |-> "dict", pages |-> pages]
NonDictStructure == [kind |-> "nondict", pages |-> <<>>]

\* the sampled documents: every sequence of at most MaxPages pages, each
\* with one of the sample contents, numbered 1..n by the parser
SampleDocs ==
    UNION { { DictStructure([i \in 1..n |-> Page(i, Content(f[i], i))])
              : f \in [1..n -> ContentKinds] } : n \in 0..MaxPages }

\* one page holding StressBlocks blocks that all leave the page
StressDoc ==
    DictStructure(<<Page(1, [i \in 1..StressBlocks |-> WideBlock])>>)

\* services/document_processor.py _create_minimal_structure
MinimalStructure == DictStructure(<<Page(1, <<>>)>>)

\* Values of Document.structure_json: None, the empty string, a string that
\* is not JSON, or the JSON text of a structure.
NoJson == [state |-> "none", value |-> NonDictStructure]
EmptyJson == [state |-> "empty", value |-> NonDictStructure]
BadJson == [state |-> "undecodable", value |-> NonDictStructure]
JsonOf(st) == [state |-> "json", value |-> st]

\* ------------------------------------------------------------ rules/base.py
\* RuleError; message is the formatted text kept as its parts, bbox and
\* block_id are None when absent
RuleError(page_number, message, severity, bbox, block_id, extra_data) ==
    [page_number |-> page_number, message |-> message, severity |-> severity,
     bbox |-> bbox, block_id |-> block_id, extra_data |-> extra_data]

NoExtra == [key |-> "", str |-> "", num |-> 0]
Extra(key, str, num) == [key |-> key, str |-> str, num |-> num]

RuleResult(rule_name, rule_code, passed, errors) ==
    [rule_name |-> rule_name, rule_code |-> rule_code, passed |-> passed,
     errors |-> errors]

BboxTuple(b) == <<b.x0, b.y0, b.x1, b.y1>>

\* BaseRule.get_all_spans (every sampled block has one line)
get_all_spans(block) == block.spans

\* A rule's check either returns a RuleResult or raises.
Returned(rule, errors) ==
    [raised |-> FALSE,
     result |-> RuleResult(rule.name, rule.code, errors = <<>>, errors)]
Raised(rule) ==
    [raised |-> TRUE, result |-> RuleResult(rule.name, rule.code, FALSE, <<>>)]

\* all errors of a page-by-page, block-by-block scan
ScanBlocks(pages, BlockErrors(_, _)) ==
    Flatten([i \in 1..Len(pages) |->
        Flatten([j \in 1..Len(pages[i].blocks) |->
            BlockErrors(pages[i], pages[i].blocks[j])])])

\* ------------------------------------------------------ rules/rules_impl.py
BoundsRule ==
    [cls |-> "BoundsRule", name |-> "Bounds check", code |-> "bounds_check",
     weight |-> 10]

BoundsIssues(page, block) ==
    LET b == block.bbox IN
    (IF b.x0 < 0 THEN <<"left">> ELSE <<>>)
    \o (IF b.y0 < 0 THEN <<"top">> ELSE <<>>)
    \o (IF b.x1 > page.info.width THEN <<"right">> ELSE <<>>)
    \o (IF b.y1 > page.info.height THEN <<"bottom">> ELSE <<>>)

BoundsBlockErrors(page, block) ==
    LET issues == BoundsIssues(page, block) IN
    IF issues # <<>>
    THEN <<RuleError(page.info.page_number, <<"bounds">> \o issues, "error",
                     BboxTuple(block.bbox), block.block_id, NoExtra)>>
    ELSE <<>>

BoundsCheck(st) == ScanBlocks(st.pages, BoundsBlockErrors)

FontRule ==
    [cls |-> "FontRule", name |-> "Font check", code |-> "font_check",
     weight |-> 8]

\* re.search of the default patterns Times.*, Arial.*, Calibri.*, PT.*,
\* Liberation.* (IGNORECASE) in the sampled font names
_is_font_allowed(font_name) == font_name \in {"Times New Roman", "Arial"}

\* the spans of the document in scan order, each with its page number and
\* block
SpanItems(pages) ==
    Flatten([i \in 1..Len(pages) |->
        Flatten([j \in 1..Len(pages[i].blocks) |->
            LET blk == pages[i].blocks[j]
                sp  == get_all_spans(blk)
            IN [k \in 1..Len(sp) |->
                   [page_num |-> pages[i].info.page_number, block |-> blk,
                    span |-> sp[k]]]])])

RECURSIVE FontScan(_, _)
\* the loop body of FontRule.check over the remaining spans, with the
\* (page, font) keys checked so far
FontScan(items, checked_fonts) ==
    IF items = <<>> THEN <<>>
    ELSE LET it        == Head(items)
             font_name == it.span.style.font_name
             key       == <<it.page_num, font_name>>
         IN IF key \in checked_fonts
            THEN FontScan(Tail(items), checked_fonts)
            ELSE (IF ~ _is_font_allowed(font_name)
                  THEN <<RuleError(it.page_num, <<"font", font_name>>,
                                   "warning", BboxTuple(it.block.bbox),
                                   it.block.block_id,
                                   Extra("font_name", font_name, 0))>>
                  ELSE <<>>)
                 \o FontScan(Tail(items), checked_fonts \cup {key})

FontCheck(st) == FontScan(SpanItems(st.pages), {})

FontSizeRule ==
    [cls |-> "FontSizeRule", name |-> "Font size check",
     code |-> "font_size_check", weight |-> 7]
FontSizeMin == 135
FontSizeMax == 145

FontSizeBlockErrors(page, block) ==
    IF block.block_type = "heading" THEN <<>>
    ELSE LET sp == get_all_spans(block) IN
         Flatten([k \in 1..Len(sp) |->
            LET font_size == sp[k].style.font_size IN
            IF font_size < FontSizeMin \/ font_size > FontSizeMax
            THEN <<RuleError(page.info.page_number, <<"font_size">>,
                             "warning", BboxTuple(block.bbox), block.block_id,
                             Extra("font_size", "", font_size))>>
            ELSE <<>>])

FontSizeCheck(st) == ScanBlocks(st.pages, FontSizeBlockErrors)

ColorRule ==
    [cls |-> "ColorRule", name |-> "Color check", code |-> "color_check",
     weight |-> 5]

\* str.upper on the sampled colors
Upper(color) == IF color = "#ff0000" THEN "#FF0000" ELSE color
AllowedColors == {"#000000"}

ColorBlockErrors(page, block) ==
    LET sp == get_all_spans(block) IN
    Flatten([k \in 1..Len(sp) |->
       LET color == Upper(sp[k].style.color) IN
       IF color \notin AllowedColors
       THEN <<RuleError(page.info.page_number, <<"color", color>>, "info",
                        BboxTuple(block.bbox), block.block_id,
                        Extra("color", color, 0))>>
       ELSE <<>>])

ColorCheck(st) == ScanBlocks(st.pages, ColorBlockErrors)

LineSpacingRule ==
    [cls |-> "LineSpacingRule", name |-> "Line spacing check",
     code |-> "line_spacing_check", weight |-> 6]
\* min_spacing 1.2 and max_spacing 1.5, in tenths
MinSpacing == 12
MaxSpacing == 15

\* normalized_spacing = avg_spacing / avg_font_size, compared with the
\* range without dividing: avg_font_size = total / n
LineSpacingBlockErrors(page, block) ==
    LET sp    == get_all_spans(block)
        n     == Len(sp)
        total == SumSeq([k \in 1..n |-> sp[k].style.font_size])
        avg   == block.avg_line_spacing
        low   == IF total > 0 THEN avg * n * 10 < MinSpacing * total ELSE TRUE
        high  == IF total > 0 THEN avg * n * 10 > MaxSpacing * total ELSE FALSE
    IN IF ~ block.has_spacing \/ sp = <<>> THEN <<>>
       ELSE IF low \/ high
       THEN <<RuleError(page.info.page_number, <<"line_spacing">>, "warning",
                        BboxTuple(block.bbox), block.block_id,
                        Extra("line_spacing", "",
                              IF total > 0 THEN (avg * n * 100) \div total
                              ELSE 0))>>
       ELSE <<>>

LineSpacingCheck(st) == ScanBlocks(st.pages, LineSpacingBlockErrors)

MarginsRule ==
    [cls |-> "MarginsRule", name |-> "Margins check", code |-> "margins_check",
     weight |-> 9]
MarginLeft == 85
MarginRight == 42
MarginTop == 57
MarginBottom == 57
MarginTolerance == 2

MarginsIssues(page, block) ==
    LET b == block.bbox
        content_left   == MarginLeft
        content_right  == page.info.width - MarginRight
        content_top    == MarginTop
        content_bottom == page.info.height - MarginBottom
    IN (IF b.x0 < content_left - MarginTolerance THEN <<"left">> ELSE <<>>)
       \o (IF b.x1 > content_right + MarginTolerance THEN <<"right">> ELSE <<>>)
       \o (IF b.y0 < content_top - MarginTolerance THEN <<"top">> ELSE <<>>)
       \o (IF b.y1 > content_bottom + MarginTolerance THEN <<"bottom">> ELSE <<>>)

MarginsBlockErrors(page, block) ==
    IF block.block_type \in {"header", "footer"} THEN <<>>
    ELSE LET issues == MarginsIssues(page, block) IN
         IF issues # <<>>
         THEN <<RuleError(page.info.page_number, <<"margins">> \o issues,
                          "warning", BboxTuple(block.bbox), block.block_id,
                          NoExtra)>>
         ELSE <<>>

MarginsCheck(st) == ScanBlocks(st.pages, MarginsBlockErrors)

HeadingRule ==
    [cls |-> "HeadingRule", name |-> "Heading check", code |-> "heading_check",
     weight |-> 7]
ExpectedYMin == 50
ExpectedYMax == 150
AllowedYMin == 40
AllowedYMax == 200

HeadingPageErrors(page) ==
    LET headings == SelectSeq(page.blocks, LAMBDA b : b.block_type = "heading")
        page_num == page.info.page_number
    IN IF headings = <<>>
       THEN (IF page_num = 1
             THEN <<RuleError(page_num, <<"heading", "missing">>, "warning",
                              None, None, NoExtra)>>
             ELSE <<>>)
       ELSE LET main_heading == headings[1]
                y0 == main_heading.bbox.y0
            IN IF y0 < AllowedYMin \/ y0 > AllowedYMax
               THEN <<RuleError(page_num, <<"heading", "not allowed">>,
                                "error", BboxTuple(main_heading.bbox),
                                main_heading.block_id, NoExtra)>>
               ELSE IF y0 < ExpectedYMin \/ y0 > ExpectedYMax
               THEN <<RuleError(page_num, <<"heading", "not expected">>,
                                "info", BboxTuple(main_heading.bbox),
                                main_heading.block_id, NoExtra)>>
               ELSE <<>>

\* check_first_page_only is False: every page is checked
HeadingCheck(st) ==
    Flatten([i \in 1..Len(st.pages) |-> HeadingPageErrors(st.pages[i])])

PageNumberRule ==
    [cls |-> "PageNumberRule", name |-> "Page number check",
     code |-> "page_number_check", weight |-> 8]
StartPage == 1
StartNumber == 1
PositionYMin == 780
PositionYMax == 842
PositionTolerance == 20

\* PageNumberRule._find_page_number: the blocks that qualify, in order
NumberCandidates(blocks) ==
    SelectSeq(blocks, LAMBDA b :
        /\ PositionYMin - PositionTolerance <= b.bbox.y0
        /\ b.bbox.y0 <= PositionYMax + PositionTolerance
        /\ IsDigit(b.text))

\* int(number_block.text) raises ValueError on a page
PageNumberRaises(page) ==
    /\ page.info.page_number >= StartPage
    /\ NumberCandidates(page.blocks) # <<>>
    /\ IntRaises(NumberCandidates(page.blocks)[1].text)

PageNumberPageErrors(page) ==
    LET page_num        == page.info.page_number
        expected_number == StartNumber + (page_num - StartPage)
        found           == NumberCandidates(page.blocks)
    IN IF page_num < StartPage THEN <<>>
       ELSE IF found = <<>>
       THEN <<RuleError(page_num, <<"page_number", "missing">>, "error",
                        None, None, NoExtra)>>
       ELSE IF IntOf(found[1].text) # expected_number
       THEN <<RuleError(page_num, <<"page_number", "wrong">>, "error",
                        BboxTuple(found[1].bbox), found[1].block_id, NoExtra)>>
       ELSE <<>>

PageNumberCheck(st) ==
    Flatten([i \in 1..Len(st.pages) |-> PageNumberPageErrors(st.pages[i])])

\* rule.check(doc_structure): every rule starts with
\* document_structure.get('pages', []), which raises on a non-dict
RuleCheck(rule, st) ==
    IF st.kind # "dict" THEN Raised(rule)
    ELSE CASE rule.cls = "BoundsRule"      -> Returned(rule, BoundsCheck(st))
           [] rule.cls = "FontRule"        -> Returned(rule, FontCheck(st))
           [] rule.cls = "FontSizeRule"    -> Returned(rule, FontSizeCheck(st))
           [] rule.cls = "ColorRule"       -> Returned(rule, ColorCheck(st))
           [] rule.cls = "LineSpacingRule" -> Returned(rule, LineSpacingCheck(st))
           [] rule.cls = "MarginsRule"     -> Returned(rule, MarginsCheck(st))
           [] rule.cls = "HeadingRule"     -> Returned(rule, HeadingCheck(st))
           [] OTHER ->
                IF \E i \in 1..Len(st.pages) : PageNumberRaises(st.pages[i])
                THEN Raised(rule)
                ELSE Returned(rule, PageNumberCheck(st))

\* --------------------------------------------------------- rules/engine.py
\* RulesEngine.register_rule and register_rules on the list _rules
register_rule(registry, rule) == Append(registry, rule)
register_rules(registry, list) == registry \o list

\* the catalogue with FontSize registered before Font
DefaultRulesReordered ==
    register_rules(<<>>,
        <<BoundsRule, FontSizeRule, FontRule, ColorRule, LineSpacingRule,
          MarginsRule, HeadingRule, PageNumberRule>>)

\* RulesEngine.create_default_engine: a new engine with the catalogue
\* registered in its fixed order
DefaultRules ==
    register_rules(<<>>,
        <<BoundsRule, FontRule, FontSizeRule, ColorRule, LineSpacingRule,
          MarginsRule, HeadingRule, PageNumberRule>>)

\* the table without the warning entry (warnings get the default 1.0)
severity_multiplier_no_warning(severity) ==
    CASE severity = "error"   -> 30
      [] severity = "info"    -> 5
      [] OTHER                -> 10

\* severity_multiplier.get(error.severity, 1.0), in tenths
severity_multiplier(severity) ==
    CASE severity = "error"   -> 30
      [] severity = "warning" -> 15
      [] severity = "info"    -> 5
      [] OTHER                -> 10

\* round(x, 1) of a value given in hundredths, as tenths.  A value that is
\* not halfway between two tenths goes to the nearest one; a halfway value
\* is taken to the even tenth (the binary representation error that decides
\* such ties in floating point is not modelled).
Round1(h) ==
    LET q == h \div 10
        r == h % 10
    IN IF r < 5 THEN q
       ELSE IF r > 5 THEN q + 1
       ELSE IF q % 2 = 0 THEN q ELSE q + 1

\* next((r for r in self._rules if r.code == result.rule_code), None) and
\* the weight taken from it (1.0 when there is none)
WeightOf(registry, rule_code) ==
    LET hits == SelectSeq(registry, LAMBDA r : r.code = rule_code) IN
    IF hits # <<>> THEN hits[1].weight ELSE 10

\* the penalty of one result, in hundredths
ResultPenalty(registry, result) ==
    LET weight == WeightOf(registry, result.rule_code) IN
    SumSeq([k \in 1..Len(result.errors) |->
               weight * severity_multiplier(result.errors[k].severity)])

TotalPenalty(registry, results) ==
    SumSeq([i \in 1..Len(results) |-> ResultPenalty(registry, results[i])])

\* the rating without the clamp at 0
_calculate_rating_unclamped(registry, results) ==
    IF results = <<>> THEN 1000
    ELSE Round1(10000 - TotalPenalty(registry, results))

\* RulesEngine._calculate_rating, in tenths
_calculate_rating(registry, results) ==
    IF results = <<>> THEN 1000
    ELSE Round1(Max(0, 10000 - TotalPenalty(registry, results)))

\* the RuleResult recorded for a rule whose check raised
SyntheticResult(rule) ==
    RuleResult(rule.name, rule.code, FALSE,
               <<RuleError(0, <<"rule failed">>, "error", None, None, NoExtra)>>)

RECURSIVE RunRulesAborting(_, _)
\* the loop when a raising rule ends it
RunRulesAborting(remaining, st) ==
    IF remaining = <<>>
    THEN [all_results |-> <<>>, all_errors |-> <<>>, ran |-> <<>>]
    ELSE LET rule == Head(remaining)
             out  == RuleCheck(rule, st)
             rest == RunRulesAborting(Tail(remaining), st)
         IN IF ~ out.raised
            THEN [all_results |-> <<out.result>> \o rest.all_results,
                  all_errors  |-> out.result.errors \o rest.all_errors,
                  ran         |-> <<rule.code>> \o rest.ran]
            ELSE [all_results |-> <<SyntheticResult(rule)>>,
                  all_errors  |-> <<>>,
                  ran         |-> <<rule.code>>]

RECURSIVE RunRules(_, _)
\* the loop of check_document over the remaining rules: the results in
\* order, the errors appended to all_errors, and the rules whose check ran
RunRules(remaining, st) ==
    IF remaining = <<>>
    THEN [all_results |-> <<>>, all_errors |-> <<>>, ran |-> <<>>]
    ELSE LET rule == Head(remaining)
             out  == RuleCheck(rule, st)
             rest == RunRules(Tail(remaining), st)
         IN IF ~ out.raised
            THEN [all_results |-> <<out.result>> \o rest.all_results,
                  all_errors  |-> out.result.errors \o rest.all_errors,
                  ran         |-> <<rule.code>> \o rest.ran]
            ELSE [all_results |-> <<SyntheticResult(rule)>> \o rest.all_results,
                  all_errors  |-> rest.all_errors,
                  ran         |-> <<rule.code>> \o rest.ran]

\* ------------------------------------------------ database and its sessions
\* The rows of one document: the documents row (structure_json, is_checked,
\* check_date, rating; rating is <<>> when NULL) and its document_errors
\* rows in insertion order.
DbState(structure_json, errors, is_checked, check_date, rating) ==
    [structure_json |-> structure_json, errors |-> errors,
     is_checked |-> is_checked, check_date |-> check_date, rating |-> rating]

\* A session: what is committed and what the session's open transaction
\* sees.
get_session(database) == [committed |-> database, working |-> database]
commit(session) == [committed |-> session.working, working |-> session.working]
rollback(session) == [committed |-> session.committed, working |-> session.committed]
\* session.close() abandons the open transaction; the database keeps what
\* was committed
close(session) == session.committed

\* a document_pages row of the document
PageRow(n) == [id |-> n, page_number |-> n]

\* pages = {p.page_number: p for p in pages_list}; pages.get(number)
PageLookup(page_rows, number) ==
    LET hits == SelectSeq(page_rows, LAMBDA p : p.page_number = number) IN
    IF hits = <<>> THEN None ELSE <<hits[Len(hits)]>>

DocumentError(page_id, error_number, result, error) ==
    [page_id |-> page_id, error_number |-> error_number,
     rule_name |-> result.rule_name, rule_code |-> result.rule_code,
     message |-> error.message, severity |-> error.severity,
     bbox |-> error.bbox, block_id |-> error.block_id,
     extra_data |-> error.extra_data]

\* every (result, error) pair in the order of the two nested loops
ErrorItems(results) ==
    Flatten([i \in 1..Len(results) |->
        [k \in 1..Len(results[i].errors) |->
            [result |-> results[i], error |-> results[i].errors[k]]]])

RECURSIVE NewRowsFromStoredOnly(_, _, _)
\* the rows when error_number counts only the errors that are stored
NewRowsFromStoredOnly(items, page_rows, error_number) ==
    IF items = <<>> THEN <<>>
    ELSE LET page == PageLookup(page_rows, Head(items).error.page_number) IN
         IF page # None
         THEN <<DocumentError(page[1].id, error_number + 1, Head(items).result,
                              Head(items).error)>>
              \o NewRowsFromStoredOnly(Tail(items), page_rows, error_number + 1)
         ELSE NewRowsFromStoredOnly(Tail(items), page_rows, error_number)

RECURSIVE NewRowsFrom(_, _, _)
\* the rows added for the remaining items; error_number counts every error
NewRowsFrom(items, page_rows, error_number) ==
    IF items = <<>> THEN <<>>
    ELSE LET number == error_number + 1
             page   == PageLookup(page_rows, Head(items).error.page_number)
         IN (IF page # None
             THEN <<DocumentError(page[1].id, number, Head(items).result,
                                  Head(items).error)>>
             ELSE <<>>)
            \o NewRowsFrom(Tail(items), page_rows, number)

NewRows(results, page_rows) == NewRowsFrom(ErrorItems(results), page_rows, 0)

\* Where a database operation of one call fails: nowhere, at the DELETE of
\* the old errors, at the SELECT of the pages, at the INSERT of the k-th new
\* row, at the load of the documents row, or at COMMIT.
NoFailure == [at |-> "none", k |-> 0]
FailAt(at, k) == [at |-> at, k |-> k]

\* the new rows added to the rows already there
WithErrorsAppended(session, errors) ==
    [session EXCEPT !.working.errors = @ \o errors]

WithErrors(session, errors) ==
    [session EXCEPT !.working.errors = errors]

\* the try block without the DELETE of the old errors
SaveBodyKeepingOld(session, results, page_rows, registry, own_session, fail) ==
    LET deleted  == session
        rows     == NewRows(results, page_rows)
        inserted == WithErrors(session, session.working.errors \o rows)
        updated  == [inserted EXCEPT
                        !.working.is_checked = TRUE,
                        !.working.check_date = "utcnow",
                        !.working.rating = <<_calculate_rating(registry, results)>>]
    IN CASE fail.at = "delete" -> [session |-> session, raised |-> TRUE]
         [] fail.at = "pages"  -> [session |-> deleted, raised |-> TRUE]
         [] fail.at = "insert" /\ fail.k \in 1..Len(rows) ->
              [session |-> WithErrors(session, session.working.errors
                                               \o SubSeq(rows, 1, fail.k - 1)),
               raised |-> TRUE]
         [] fail.at = "get"    -> [session |-> inserted, raised |-> TRUE]
         [] fail.at = "commit" /\ own_session ->
              [session |-> updated, raised |-> TRUE]
         [] OTHER ->
              [session |-> IF own_session THEN commit(updated) ELSE updated,
               raised |-> FALSE]

\* the body of the try block of _save_errors_to_db up to the failing
\* operation: the session as the failure (or the end of the block) leaves it
SaveBody(session, results, page_rows, registry, own_session, fail) ==
    LET deleted  == WithErrors(session, <<>>)
        rows     == NewRows(results, page_rows)
        inserted == WithErrors(session, rows)
        updated  == [inserted EXCEPT
                        !.working.is_checked = TRUE,
                        !.working.check_date = "utcnow",
                        !.working.rating = <<_calculate_rating(registry, results)>>]
    IN CASE fail.at = "delete" -> [session |-> session, raised |-> TRUE]
         [] fail.at = "pages"  -> [session |-> deleted, raised |-> TRUE]
         [] fail.at = "insert" /\ fail.k \in 1..Len(rows) ->
              [session |-> WithErrors(session, SubSeq(rows, 1, fail.k - 1)),
               raised |-> TRUE]
         [] fail.at = "get"    -> [session |-> inserted, raised |-> TRUE]
         [] fail.at = "commit" /\ own_session ->
              [session |-> updated, raised |-> TRUE]
         [] OTHER ->
              [session |-> IF own_session THEN commit(updated) ELSE updated,
               raised |-> FALSE]

\* _save_errors_to_db when the except branch commits instead of rolling back
_save_errors_to_db_committing(database, session, results, page_rows, registry, own_session, fail) ==
    LET opened == IF own_session THEN get_session(database) ELSE session
        body   == SaveBody(opened, results, page_rows, registry, own_session, fail)
        after  == IF body.raised /\ own_session THEN commit(body.session)
                  ELSE body.session
    IN [session  |-> after,
        database |-> IF own_session THEN close(after) ELSE database,
        raised   |-> body.raised]

\* RulesEngine._save_errors_to_db: the try block, then except (rollback of
\* an own session, re-raise) and finally (close of an own session).  Gives
\* the caller's session, or for an own session the database it leaves.
_save_errors_to_db(database, session, results, page_rows, registry, own_session, fail) ==
    LET opened == IF own_session THEN get_session(database) ELSE session
        body   == SaveBody(opened, results, page_rows, registry, own_session, fail)
        after  == IF body.raised /\ own_session THEN rollback(body.session)
                  ELSE body.session
    IN [session  |-> after,
        database |-> IF own_session THEN close(after) ELSE database,
        raised   |-> body.raised]

\* What a call of check_document gives back: the returned dict, or raised.
\* total_errors is <<>> when the dict has no such key; ran lists the rules
\* whose check was called, in call order.
Report(outcome, success, error, results, total_errors, rating, ran) ==
    [outcome |-> outcome, success |-> success, error |-> error,
     results |-> results, total_errors |-> total_errors, rating |-> rating,
     ran |-> ran]

\* the database failures one call can meet, given the rows it would insert
Failures(results, page_rows) ==
    {NoFailure}
    \cup {FailAt(at, 0) : at \in {"delete", "pages", "get", "commit"}}
    \cup {FailAt("insert", k) :
            k \in 1..Min(Len(NewRows(results, page_rows)), MaxFailIndex)}

\* a failure dict that carries the rating of a clean document
FailureReportRated(error) ==
    Report("returned", FALSE, error, <<>>, <<>>, 1000, <<>>)

\* the dict of an early return: success False, the error text, no results,
\* rating 0
FailureReport(error) ==
    Report("returned", FALSE, error, <<>>, <<>>, 0, <<>>)

\* RulesEngine.check_document(document, session): the set of ways the call
\* can end, one for each database failure it can meet (fail records which)
check_document(registry, database, session, page_rows, own_session) ==
    LET document == IF own_session THEN database ELSE session.working
        json     == document.structure_json
        run      == RunRules(registry, json.value)
        rating   == _calculate_rating(registry, run.all_results)
        Saved(fail) == _save_errors_to_db(database, session, run.all_results,
                                          page_rows, registry, own_session, fail)
    IN IF json.state \in {"none", "empty"}
       THEN {[report |-> FailureReport("no structure"),
              session |-> session, database |-> database, fail |-> NoFailure]}
       ELSE IF json.state = "undecodable"
       THEN {[report |-> FailureReport("json error"),
              session |-> session, database |-> database, fail |-> NoFailure]}
       ELSE {IF Saved(fail).raised
             THEN [report |-> Report("raised", FALSE, "db error", run.all_results,
                                     <<>>, rating, run.ran),
                   session |-> Saved(fail).session,
                   database |-> Saved(fail).database, fail |-> fail]
             ELSE [report |-> Report("returned", TRUE, "", run.all_results,
                                     <<Len(run.all_errors)>>, rating, run.ran),
                   session |-> Saved(fail).session,
                   database |-> Saved(fail).database, fail |-> fail]
             : fail \in Failures(run.all_results, page_rows)}

\* ------------------------------------------------------------------ state
VARIABLES
    database,   \* the committed rows of the document
    pages,      \* the document_pages rows of the document
    original,   \* the uploaded file as the parser reads it, if still on disk
    last,       \* the latest operation: what it ran and gave back
    parser,     \* a PDFParser or DOCXParser instance (its _block_counter)
    document,   \* the ParsedDocument the latest parse call returned
    exported,   \* what the latest exporter / deserializer call returned
    geometry,   \* two bounding boxes and the answers of their predicates
    batch,      \* one AsyncDocumentProcessor.process_batch call in progress
    cache_dir,  \* the files of a DocumentCache directory, oldest mtime first
    memory,     \* a MemoryCache instance (_cache, _access_order)
    rule_run,   \* one rule of the catalogue applied to one document structure
    renderer,   \* the image files and the call of an ErrorRenderer
    processor,  \* a DocumentProcessor with its DocumentCache and one file
    workers     \* the page workers of one document and its database rows

vars == <<database, pages, original, last>>

\* Each specification below drives one component; the variables of the
\* other components keep this value.
Unused == "unused"

EngineUnused ==
    /\ database = Unused /\ pages = Unused /\ original = Unused /\ last = Unused
ParserUnused ==
    /\ parser = Unused /\ document = Unused /\ exported = Unused
GeometryUnused == geometry = Unused
BatchUnused == batch = Unused
DocumentCacheUnused == cache_dir = Unused
MemoryCacheUnused == memory = Unused
RulesUnused == rule_run = Unused
RendererUnused == renderer = Unused
ProcessorUnused == processor = Unused
WorkersUnused == workers = Unused

parser_vars == <<parser, document, exported>>
outside_engine == <<parser_vars, geometry, batch, cache_dir, memory, rule_run, renderer, processor, workers>>
outside_parser == <<vars, geometry, batch, cache_dir, memory, rule_run, renderer, processor, workers>>
outside_geometry == <<vars, parser_vars, batch, cache_dir, memory, rule_run, renderer, processor, workers>>
outside_batch == <<vars, parser_vars, geometry, cache_dir, memory, rule_run, renderer, processor, workers>>
outside_document_cache == <<vars, parser_vars, geometry, batch, memory, rule_run, renderer, processor, workers>>
outside_memory_cache == <<vars, parser_vars, geometry, batch, cache_dir, rule_run, renderer, processor, workers>>
outside_rules == <<vars, parser_vars, geometry, batch, cache_dir, memory, renderer, processor, workers>>
outside_renderer == <<vars, parser_vars, geometry, batch, cache_dir, memory, rule_run, processor, workers>>
outside_processor == <<vars, parser_vars, geometry, batch, cache_dir, memory, rule_run, renderer, workers>>
outside_workers == <<vars, parser_vars, geometry, batch, cache_dir, memory, rule_run, renderer, processor>>

\* the engines an API user builds: RulesEngine() with none, one or two rules
\* registered one by one, or the default engine
SampleEngines ==
    {<<>>,
     register_rule(<<>>, BoundsRule),
     register_rule(<<>>, FontRule),
     register_rule(register_rule(<<>>, PageNumberRule), BoundsRule),
     DefaultRules}

OriginalFiles ==
    {[found |-> TRUE, parsed |-> st] : st \in SampleDocs \cup {StressDoc}}
    \cup {[found |-> FALSE, parsed |-> MinimalStructure]}

\* structure_json of a stored document: what the upload wrote for the file,
\* or (sampled for the documents whose file is gone) a row whose structure
\* is missing, empty, not JSON, or not an object
StoredJson(file) ==
    IF file.found THEN {JsonOf(file.parsed)}
    ELSE {JsonOf(file.parsed), NoJson, EmptyJson, BadJson,
          JsonOf(NonDictStructure)}

\* repeated: this check directly follows a successful check made with the
\* same rules (the structure cannot change between two checks)
Outcome(op, registry, report, status, repeated) ==
    [op |-> op, registry |-> registry, report |-> report, status |-> status,
     repeated |-> repeated]

Checks == {"check", "route_check"}
Repeats(registry) ==
    /\ last.op \in Checks
    /\ last.report.outcome = "returned"
    /\ last.report.success
    /\ last.status \in {0, 200}
    /\ last.registry = registry

NoReport == Report("none", FALSE, "", <<>>, <<>>, 0, <<>>)

Init ==
    /\ original \in OriginalFiles
    /\ \E json \in StoredJson(original) :
          database = DbState(json, <<>>, FALSE, "None", <<>>)
    /\ \E m \in 1..MaxPages : pages = [i \in 1..m |-> PageRow(i)]
    /\ last = Outcome("init", <<>>, NoReport, 0, FALSE)
    /\ ParserUnused /\ GeometryUnused /\ BatchUnused
    /\ DocumentCacheUnused /\ MemoryCacheUnused
    /\ RulesUnused /\ RendererUnused /\ ProcessorUnused /\ WorkersUnused

\* engine.check_document(document) on an engine built through the API, with
\* no session: the engine opens, commits and closes its own
CheckDocument(engine) ==
    \E out \in check_document(engine, database, get_session(database), pages, TRUE) :
       /\ database' = out.database
       /\ last' = Outcome("check", engine, out.report, 0, Repeats(engine))
       /\ UNCHANGED <<pages, original, outside_engine>>

\* POST /document/<id>/check (routes/documents.py), with the request's
\* session opened by before_request and closed by teardown_request
RouteCheckDocument ==
    LET g_db_session == get_session(database)
        engine == DefaultRules
    IN \E out \in check_document(engine, database, g_db_session, pages, FALSE) :
        LET status == IF out.report.outcome = "raised" THEN 500
                      ELSE IF ~ out.report.success THEN 400
                      ELSE IF out.fail.at = "commit" THEN 500
                      ELSE 200
            after  == IF status = 200 THEN commit(out.session) ELSE out.session
        IN /\ database' = close(after)
           /\ last' = Outcome("route_check", engine, out.report, status, Repeats(engine))
           /\ UNCHANGED <<pages, original, outside_engine>>

\* POST /document/<id>/reparse: the structure is parsed again from the
\* original file (a minimal one when the file is gone), the check status is
\* reset and the stored errors deleted, in one commit
RouteReparse(fail) ==
    LET g_db_session == get_session(database)
        structure == IF original.found THEN original.parsed
                     ELSE MinimalStructure
        changed == [g_db_session EXCEPT
                       !.working.structure_json = JsonOf(structure),
                       !.working.is_checked = FALSE,
                       !.working.rating = <<>>,
                       !.working.errors = <<>>]
        after == IF fail THEN changed ELSE commit(changed)
    IN /\ database' = close(after)
       /\ last' = Outcome("reparse", <<>>, NoReport, 302, FALSE)
       /\ UNCHANGED <<pages, original, outside_engine>>

Next ==
    \/ \E engine \in SampleEngines : CheckDocument(engine)
    \/ RouteCheckDocument
    \/ \E fail \in BOOLEAN : RouteReparse(fail)

Spec == Init /\ [][Next]_vars

\* ------------------------------------------------------------- properties
\* the latest operation is a check whose rules loop ran
RanRules == last.op \in Checks /\ last.report.outcome \in {"returned", "raised"}
                /\ database.structure_json.state = "json"
\* the latest operation is a check that returned success and was committed
Succeeded == last.op \in Checks /\ last.report.outcome = "returned"
                /\ last.report.success /\ last.status \in {0, 200}

ErrorCount(results) == SumSeq([i \in 1..Len(results) |-> Len(results[i].errors)])

\* C1: every rating a check computes, returns or stores lies between 0 and
\* 100 (0 and 1000 tenths), and a check in which no rule is registered or
\* no result carries an error is rated exactly 100.0.
C1_RatingBounds ==
    /\ last.report.rating \in 0..1000
    /\ database.rating # <<>> => database.rating[1] \in 0..1000
    /\ (Succeeded /\ ErrorCount(last.report.results) = 0) =>
          /\ last.report.rating = 1000
          /\ database.rating = <<1000>>

\* C1 witness: a committed check whose penalties pass 100, rated 0.
C1_Witness ==
    /\ Succeeded
    /\ TotalPenalty(last.registry, last.report.results) > 10000
    /\ last.report.rating = 0

\* the structure the latest check ran its rules on
CheckedStructure == database.structure_json.value

\* C2: when a registered rule's check raises, the result recorded at the
\* rule's position is a failed RuleResult with exactly one error of
\* severity error on page 0, every registered rule has still been run, and
\* a call that the database lets finish returns success = true.
C2_BrokenRuleContained ==
    RanRules =>
       /\ Len(last.report.results) = Len(last.registry)
       /\ Len(last.report.ran) = Len(last.registry)
       /\ \A i \in 1..Len(last.registry) :
             RuleCheck(last.registry[i], CheckedStructure).raised =>
                LET result == last.report.results[i] IN
                /\ result.rule_code = last.registry[i].code
                /\ ~ result.passed
                /\ Len(result.errors) = 1
                /\ result.errors[1].severity = "error"
                /\ result.errors[1].page_number = 0
       /\ last.report.outcome = "returned" => last.report.success

\* C2 witness: a returned check in which a rule raised and a rule
\* registered after it ran and reported its own findings.
C2_Witness ==
    /\ Succeeded
    /\ \E i, j \in 1..Len(last.registry) :
          /\ i < j
          /\ RuleCheck(last.registry[i], CheckedStructure).raised
          /\ ~ RuleCheck(last.registry[j], CheckedStructure).raised
          /\ last.report.results[j].errors # <<>>
          /\ last.report.results[j].errors[1].page_number > 0

\* C3 (as claimed): total_errors of a successful check is the number of
\* RuleErrors in the returned results, the result of a rule that raised
\* included.
C3_TotalErrorsCountsAll ==
    Succeeded => last.report.total_errors = <<ErrorCount(last.report.results)>>

\* what a check may change in the document's stored rows
Stored(db) == <<db.errors, db.rating, db.is_checked>>

\* the latest operation is a check that a database failure ended (the
\* engine raised, or the route's commit failed)
Failed(l) ==
    /\ l.op \in Checks
    /\ l.report.outcome = "raised" \/ l.status = 500

KeptItems ==
    LET items == ErrorItems(last.report.results) IN
    SelectSeq([i \in 1..Len(items) |->
                  [number |-> i, result |-> items[i].result,
                   error |-> items[i].error]],
              LAMBDA it : \E k \in 1..Len(pages) :
                             pages[k].page_number = it.error.page_number)

\* C5 (as claimed): after a committed check the stored error numbers are
\* 1..K in storage order, K the number of stored errors.
C5_NumbersDense ==
    Succeeded =>
       \A r \in 1..Len(database.errors) : database.errors[r].error_number = r

\* C5 (amended): the stored error numbers strictly increase in rule
\* registration order, then within-rule order, and each is the position of
\* its error among all errors of the run, dropped ones included; they lie in
\* 1..N, N the number of errors of the run.
C5_NumbersCountEveryError ==
    Succeeded =>
       /\ Len(database.errors) = Len(KeptItems)
       /\ \A r \in 1..Len(database.errors) :
             /\ database.errors[r].error_number = KeptItems[r].number
             /\ database.errors[r].error_number
                   \in 1..ErrorCount(last.report.results)
       /\ \A r \in 1..(Len(database.errors) - 1) :
             database.errors[r].error_number < database.errors[r + 1].error_number

\* C5 witness: a committed check stored an error after dropping an earlier
\* one, so the stored numbers have a gap.
C5_Witness ==
    /\ Succeeded
    /\ \E r \in 1..Len(database.errors) : database.errors[r].error_number > r

\* C6: after a committed check the stored errors are exactly the errors of
\* that run whose page number is one of the document's stored pages, in run
\* order, each attached to the page with its number; nothing of an earlier
\* run remains and an error without a page is dropped.
C6_StoredAreLatestRun ==
    Succeeded =>
       /\ Len(database.errors) = Len(KeptItems)
       /\ \A r \in 1..Len(database.errors) :
             LET row == database.errors[r]
                 it  == KeptItems[r]
             IN /\ row.rule_code = it.result.rule_code
                /\ row.rule_name = it.result.rule_name
                /\ row.message = it.error.message
                /\ row.severity = it.error.severity
                /\ row.bbox = it.error.bbox
                /\ row.block_id = it.error.block_id
                /\ \E k \in 1..Len(pages) :
                      /\ pages[k].id = row.page_id
                      /\ pages[k].page_number = it.error.page_number
       /\ database.is_checked
       /\ database.rating = <<last.report.rating>>

\* C6 witness: a committed check that followed a committed check, and
\* that stored some of its errors and dropped others.
C6_Witness ==
    /\ Succeeded
    /\ last.repeated
    /\ database.errors # <<>>
    /\ Len(database.errors) < ErrorCount(last.report.results)

\* C7: a check of a document whose structure_json is absent, empty or not
\* decodable returns success = false with an error text, no results and
\* rating 0, calls no rule, and leaves the stored rows as they were.
C7_NoStructureFailsFast ==
    [][(last'.op \in Checks
         /\ database.structure_json.state \in {"none", "empty", "undecodable"})
       => /\ last'.report.outcome = "returned"
          /\ ~ last'.report.success
          /\ last'.report.error # ""
          /\ last'.report.results = <<>>
          /\ last'.report.rating = 0
          /\ last'.report.ran = <<>>
          /\ last'.status \in {0, 400}
          /\ database' = database]_vars

\* C7 witness: a check of a document whose structure_json is not JSON
\* ended with the failure report.
C7_Witness ==
    /\ last.op \in Checks
    /\ database.structure_json.state = "undecodable"
    /\ ~ last.report.success
    /\ last.report.outcome = "returned"

\* C8: a check calls every registered rule once, in registration order, and
\* returns one RuleResult per rule in that order, also when a rule raises;
\* the engine of create_default_engine runs Bounds, Font, FontSize, Color,
\* LineSpacing, Margins, Heading, PageNumber.
C8_RegistrationOrder ==
    RanRules =>
       /\ last.report.ran = [i \in 1..Len(last.registry) |-> last.registry[i].code]
       /\ Len(last.report.results) = Len(last.registry)
       /\ \A i \in 1..Len(last.registry) :
             /\ last.report.results[i].rule_code = last.registry[i].code
             /\ last.report.results[i].rule_name = last.registry[i].name
       /\ last.op = "route_check" =>
             last.report.ran =
                <<"bounds_check", "font_check", "font_size_check",
                  "color_check", "line_spacing_check", "margins_check",
                  "heading_check", "page_number_check">>

\* C8 witness: a route check ran the eight default rules, the last of which
\* raised.
C8_Witness ==
    /\ RanRules
    /\ last.op = "route_check"
    /\ Len(last.report.ran) = 8
    /\ RuleCheck(PageNumberRule, CheckedStructure).raised

\* the penalty of the latest run, in hundredths, each error weighted by the
\* rule at whose position its result stands
PenaltyByProducer ==
    SumSeq([i \in 1..Len(last.report.results) |->
        SumSeq([k \in 1..Len(last.report.results[i].errors) |->
            last.registry[i].weight *
            (CASE last.report.results[i].errors[k].severity = "error" -> 30
               [] last.report.results[i].errors[k].severity = "warning" -> 15
               [] OTHER -> 5)])])

\* C9: the rating is max(0, 100 - sum of weight x multiplier over all
\* errors) rounded to one decimal (off from the exact value by at most
\* 0.05), with multipliers error 3.0, warning 1.5, info 0.5; one Bounds
\* error alone gives 97.0 and one Font warning alone gives 98.8.
C9_RatingFormula ==
    RanRules =>
       LET exact == Max(0, 10000 - PenaltyByProducer)
           found == ErrorItems(last.report.results)
       IN /\ 10 * last.report.rating - exact \in -5..5
          /\ exact % 10 = 0 => 10 * last.report.rating = exact
          /\ (Len(found) = 1 /\ found[1].result.rule_code = "bounds_check"
                /\ found[1].error.severity = "error")
                => last.report.rating = 970
          /\ (Len(found) = 1 /\ found[1].result.rule_code = "font_check"
                /\ found[1].error.severity = "warning")
                => last.report.rating = 988

\* C9 witness: a committed check whose only finding is one Font warning,
\* rated 98.8.
C9_Witness ==
    /\ Succeeded
    /\ ErrorCount(last.report.results) = 1
    /\ \E i \in 1..Len(last.report.results) :
          /\ last.report.results[i].rule_code = "font_check"
          /\ Len(last.report.results[i].errors) = 1
          /\ last.report.results[i].errors[1].severity = "warning"
    /\ database.rating = <<988>>

\* C10: a committed check that directly follows a committed check made
\* with the same rules on the unchanged document gives the same results in
\* the same order with the same messages, and leaves the same stored errors,
\* error numbers and rating.
C10_Idempotent ==
    [][(last'.repeated /\ last'.report.outcome = "returned"
          /\ last'.report.success /\ last'.status \in {0, 200})
       => /\ last'.report.results = last.report.results
          /\ last'.report.total_errors = last.report.total_errors
          /\ last'.report.rating = last.report.rating
          /\ Stored(database') = Stored(database)]_vars

\* C10 witness: a second committed check in a row with the same rules, on a
\* document with stored errors.
C10_Witness ==
    /\ Succeeded
    /\ last.repeated
    /\ Len(database.errors) >= 2
    /\ \E i \in 1..Len(last.report.results) :
          last.report.results[i].rule_code = "font_check"
             /\ last.report.results[i].errors # <<>>


\* ======================================================================
\* utils/document_parser: the parsers, the exporter and the caches.
\* Coordinates, sizes and font sizes of this part are thousandths of a
\* point (72.0 pt is 72000), so that values with more than two decimals
\* exist.  A text is [lead, chars]: how it starts ("word", "bullet", or
\* "space" for a text of white space only) and its number of characters.
\* ======================================================================

\* ------------------------------------------------ models/document.py
BoundingBox(x0, y0, x1, y1) == [x0 |-> x0, y0 |-> y0, x1 |-> x1, y1 |-> y1]

\* BoundingBox.width / height / center (center[0] doubled, to stay integer)
BoxWidth(b) == b.x1 - b.x0
BoxHeight(b) == b.y1 - b.y0
TwiceCenterX(b) == b.x0 + b.x1

\* BoundingBox.contains(other)
contains(self, other) ==
    /\ self.x0 <= other.x0
    /\ self.y0 <= other.y0
    /\ self.x1 >= other.x1
    /\ self.y1 >= other.y1

\* BoundingBox.overlaps(other)
overlaps(self, other) ==
    /\ self.x0 < other.x1
    /\ self.x1 > other.x0
    /\ self.y0 < other.y1
    /\ self.y1 > other.y0

Text(lead, chars) == [lead |-> lead, chars |-> chars]
\* str.strip() leaves nothing of a text of white space
StripsToEmpty(text) == text.chars = 0 \/ text.lead = "space"

\* TextStyle with the defaults of the dataclass for the fields that no
\* parser sets (background_color, line_spacing, letter_spacing)
TextStyle(font_name, font_size, font_weight, font_style, color, is_underline, is_strikethrough) ==
    [font_name |-> font_name, font_size |-> font_size,
     font_weight |-> font_weight, font_style |-> font_style,
     color |-> color, background_color |-> None,
     is_underline |-> is_underline, is_strikethrough |-> is_strikethrough,
     line_spacing |-> None, letter_spacing |-> None]

TextSpan(text, style, bbox) == [text |-> text, style |-> style, bbox |-> bbox]

TextLine(spans, bbox, baseline_y) ==
    [spans |-> spans, bbox |-> bbox, baseline_y |-> baseline_y]

\* len(TextLine.text): the span texts joined with nothing between them
LineChars(line) == SumSeq([i \in 1..Len(line.spans) |-> line.spans[i].text.chars])

\* len(TextBlock.text): the line texts joined with "\n"
BlockChars(block) ==
    IF block.lines = <<>> THEN 0
    ELSE SumSeq([i \in 1..Len(block.lines) |-> LineChars(block.lines[i])])
         + (Len(block.lines) - 1)

\* TextLine.dominant_style: the style of the longest span (the first of them)
dominant_style(line) ==
    IF line.spans = <<>> THEN None
    ELSE LET longest == CHOOSE i \in 1..Len(line.spans) :
                 /\ \A j \in 1..Len(line.spans) :
                       line.spans[j].text.chars <= line.spans[i].text.chars
                 /\ \A j \in 1..(i - 1) :
                       line.spans[j].text.chars < line.spans[i].text.chars
         IN <<line.spans[longest].style>>

TextBlock(block_id, block_type, lines, bbox, page_number, reading_order, semantic_level) ==
    [block_id |-> block_id, block_type |-> block_type, lines |-> lines,
     bbox |-> bbox, page_number |-> page_number,
     reading_order |-> reading_order, semantic_level |-> semantic_level]

PageInfo(page_number, width, height, rotation) ==
    [page_number |-> page_number, width |-> width, height |-> height,
     rotation |-> rotation]

DocumentPage(info, blocks) == [info |-> info, blocks |-> blocks]

DocumentMetadata(filename, document_type, total_pages) ==
    [filename |-> filename, document_type |-> document_type,
     total_pages |-> total_pages, file_size_bytes |-> 0, title |-> None,
     author |-> None, creation_date |-> None, modification_date |-> None,
     content_hash |-> None]

ParsedDocument(metadata, doc_pages) == [metadata |-> metadata, pages |-> doc_pages]

\* str(n) for n >= 0, as the sequence of its decimal digits
RECURSIVE Digits(_)
Digits(n) ==
    LET digit(d) == <<"0", "1", "2", "3", "4", "5", "6", "7", "8", "9">>[d + 1]
    IN IF n < 10 THEN <<digit(n)>> ELSE Digits(n \div 10) \o <<digit(n % 10)>>

\* f"blk_p{page_num}_{self._block_counter}", as a sequence of characters
BlockId(page_num, counter) ==
    <<"b", "l", "k", "_", "p">> \o Digits(page_num) \o <<"_">> \o Digits(counter)

\* utils/color_utils.int_to_hex: f"#{r:02x}{g:02x}{b:02x}" as characters
int_to_hex(color_int) ==
    LET hex(d) == <<"0", "1", "2", "3", "4", "5", "6", "7", "8", "9",
                    "a", "b", "c", "d", "e", "f">>[d + 1]
        two(v) == <<hex(v \div 16), hex(v % 16)>>
        r == (color_int \div 65536) % 256
        g == (color_int \div 256) % 256
        b == color_int % 256
    IN <<"#">> \o two(r) \o two(g) \o two(b)

\* -------------------------------------------- parsers/docx_parser.py
\* DOCXParser.__init__ defaults (A4, 72 pt margins)
page_width == 595000
page_height == 842000
margin_left == 72000
margin_top == 72000
content_width == page_width - 2 * margin_left

\* A python-docx paragraph: its text, its runs (text and font.size, None
\* when the run has no size of its own) and the name and font size of its
\* style.
Run(text, size) == [text |-> text, size |-> size]
Paragraph(text, runs, style_name, style_size) ==
    [text |-> text, runs |-> runs, style_name |-> style_name,
     style_size |-> style_size]

\* DOCXParser._get_font_size: the size of the first run that has one, else
\* the size of the style, else None
_get_font_size(para) ==
    LET sized == {i \in 1..Len(para.runs) : para.runs[i].size # None}
    IN IF sized # {}
       THEN para.runs[CHOOSE i \in sized : \A j \in sized : i <= j].size
       ELSE para.style_size

\* DOCXParser._detect_block_type ("heading 1" etc. are the lower-cased
\* style names)
docx_detect_block_type(para) ==
    IF para.style_name \in {"heading 1", "heading 2", "title"} THEN "heading"
    ELSE IF para.style_name = "list bullet" \/ para.text.lead = "bullet"
         THEN "list_item"
    ELSE "paragraph"

\* DOCXParser._get_heading_level
_get_heading_level(para) ==
    CASE para.style_name = "heading 1" -> <<1>>
      [] para.style_name = "heading 2" -> <<2>>
      [] para.style_name = "title"     -> <<1>>
      [] OTHER                         -> None

\* DOCXParser._parse_run: a span as wide as len(text) * font_size * 0.5 and
\* as high as font_size * 1.2
_parse_run(run, x_offset, y_offset) ==
    LET font_size == IF run.size # None THEN run.size[1] ELSE 12000
    IN TextSpan(run.text,
                TextStyle("default", font_size, "normal", "normal", int_to_hex(0),
                          FALSE, FALSE),
                BoundingBox(x_offset, y_offset,
                            x_offset + run.text.chars * (font_size \div 2),
                            y_offset + (font_size * 12) \div 10))

RECURSIVE RunSpans(_, _, _)
\* the loop of _create_lines: the runs with text, each starting where the
\* one before it ends
RunSpans(runs, current_x, y) ==
    IF runs = <<>> THEN <<>>
    ELSE IF Head(runs).text.chars = 0 THEN RunSpans(Tail(runs), current_x, y)
    ELSE LET span == _parse_run(Head(runs), current_x, y)
         IN <<span>> \o RunSpans(Tail(runs), span.bbox.x1, y)

RECURSIVE MaxOf(_)
MaxOf(values) ==
    IF Len(values) = 1 THEN values[1] ELSE Max(Head(values), MaxOf(Tail(values)))
RECURSIVE MinOf(_)
MinOf(values) ==
    IF Len(values) = 1 THEN values[1] ELSE Min(Head(values), MinOf(Tail(values)))

\* DOCXParser._create_lines: all spans in one line
_create_lines(para, block_bbox) ==
    LET spans == RunSpans(para.runs, block_bbox.x0, block_bbox.y0)
    IN IF spans = <<>> THEN <<>>
       ELSE <<TextLine(spans,
                       BoundingBox(block_bbox.x0, block_bbox.y0,
                                   MaxOf([i \in 1..Len(spans) |-> spans[i].bbox.x1]),
                                   block_bbox.y1),
                       None)>>

\* _parse_paragraph when the block counter is not advanced
_parse_paragraph_same_counter(para, page_num, order, y_offset, counter) ==
    IF StripsToEmpty(para.text) THEN [block |-> None, counter |-> counter]
    ELSE
      LET size == _get_font_size(para)
          font_size == IF size # None THEN size[1] ELSE 12000
          block_height == IF para.text.chars <= 80 THEN (font_size * 12) \div 10
                          ELSE (font_size * 3 * para.text.chars) \div 200
          block_type == docx_detect_block_type(para)
          bbox == BoundingBox(margin_left, y_offset,
                              margin_left + content_width, y_offset + block_height)
      IN [block |-> <<TextBlock(BlockId(page_num, counter), block_type,
                                _create_lines(para, bbox), bbox, page_num, order,
                                IF block_type = "heading"
                                THEN _get_heading_level(para) ELSE None)>>,
          counter |-> counter]

\* DOCXParser._parse_paragraph(para, page_num, order, y_offset) with
\* self._block_counter passed in and handed back.  The block is
\* font_size * 1.2 * max(1, len(text) / 80) high.
_parse_paragraph(para, page_num, order, y_offset, counter) ==
    IF StripsToEmpty(para.text) THEN [block |-> None, counter |-> counter]
    ELSE
      LET block_counter == counter + 1
          size == _get_font_size(para)
          font_size == IF size # None THEN size[1] ELSE 12000
          block_height == IF para.text.chars <= 80 THEN (font_size * 12) \div 10
                          ELSE (font_size * 3 * para.text.chars) \div 200
          block_type == docx_detect_block_type(para)
          bbox == BoundingBox(margin_left, y_offset,
                              margin_left + content_width, y_offset + block_height)
      IN [block |-> <<TextBlock(BlockId(page_num, block_counter), block_type,
                                _create_lines(para, bbox), bbox, page_num, order,
                                IF block_type = "heading"
                                THEN _get_heading_level(para) ELSE None)>>,
          counter |-> block_counter]

DocxPage(page_num, blocks) ==
    DocumentPage(PageInfo(page_num, page_width, page_height, 0), blocks)

\* "if block:" (docx_parser.py:147-150): the block joins the current page
Appended(st, parsed) ==
    [st EXCEPT !.current_blocks = Append(@, parsed.block[1]),
               !.current_y = parsed.block[1].bbox.y1 + 10000,
               !.reading_order = @ + 1,
               !.counter = parsed.counter]

\* "Save current page" and "Start new page" (docx_parser.py:128-142)
NewPage(st) ==
    [st EXCEPT !.pages = IF st.current_blocks # <<>>
                         THEN Append(@, DocxPage(st.current_page_num,
                                                 st.current_blocks))
                         ELSE @,
               !.current_page_num = @ + 1,
               !.current_y = margin_top,
               !.current_blocks = <<>>]

\* the rest of an iteration once the paragraph has been parsed at the
\* current position: a block that does not fit is parsed again at the top
\* of the next page
Placed(st, para, first) ==
    IF first.block = None THEN st
    ELSE IF st.current_y + BoxHeight(first.block[1].bbox) > page_height - margin_top
    THEN Appended(NewPage(st),
                  _parse_paragraph(para, st.current_page_num + 1, st.reading_order,
                                   margin_top, first.counter))
    ELSE Appended(st, first)

\* one iteration of the loop of _extract_pages over doc.paragraphs
ExtractStep(st, para) ==
    Placed(st, para,
           _parse_paragraph(para, st.current_page_num, st.reading_order,
                            st.current_y, st.counter))

RECURSIVE ExtractLoop(_, _)
\* the loop reached with state next and the paragraphs rest still to come
ExtractNext(next, rest) ==
    IF Computed(next) THEN ExtractLoop(next, rest) ELSE next

ExtractLoop(st, paragraphs) ==
    IF paragraphs = <<>> THEN st
    ELSE ExtractNext(ExtractStep(st, Head(paragraphs)), Tail(paragraphs))

\* "Add last page" and the return of _extract_pages (docx_parser.py:152-166)
LastPage(st) ==
    [pages |-> IF st.current_blocks # <<>>
               THEN Append(st.pages, DocxPage(st.current_page_num, st.current_blocks))
               ELSE IF st.pages # <<>> THEN st.pages
               ELSE <<DocxPage(1, <<>>)>>,
     counter |-> st.counter]

\* DOCXParser._extract_pages, with the block counter it leaves behind
_extract_pages(paragraphs, counter) ==
    LastPage(ExtractLoop([pages |-> <<>>, current_y |-> margin_top,
                          current_page_num |-> 1, current_blocks |-> <<>>,
                          reading_order |-> 0, counter |-> counter],
                         paragraphs))

\* the ParsedDocument of DOCXParser.parse, total_pages set to len(pages)
DocxDocument(extracted) ==
    [document |-> ParsedDocument(
                     DocumentMetadata("file.docx", "docx", Len(extracted.pages)),
                     extracted.pages),
     counter |-> extracted.counter]

\* DOCXParser.parse: the counter starts again at 0
docx_parse(paragraphs) == DocxDocument(_extract_pages(paragraphs, 0))

\* --------------------------------------------- parsers/pdf_parser.py
\* What page.get_text("dict") gives: blocks of type 0 (text) or 1 (image),
\* each with a bbox and lines of spans; flags is the set of the bits set.
RawSpan(text, size, flags, color, bbox) ==
    [text |-> text, size |-> size, flags |-> flags, color |-> color, bbox |-> bbox]
RawLine(spans, bbox) == [spans |-> spans, bbox |-> bbox]
RawBlock(type, bbox, lines) == [type |-> type, bbox |-> bbox, lines |-> lines]
RawPage(width, height, blocks) == [width |-> width, height |-> height, blocks |-> blocks]

\* PDFParser._parse_span: None for a span without text
_parse_span(span_data) ==
    IF span_data.text.chars = 0 THEN None
    ELSE <<TextSpan(span_data.text,
                    TextStyle("font", span_data.size,
                              IF 4 \in span_data.flags THEN "bold" ELSE "normal",
                              IF 1 \in span_data.flags THEN "italic" ELSE "normal",
                              int_to_hex(span_data.color),
                              2 \in span_data.flags, 3 \in span_data.flags),
                    span_data.bbox)>>

\* PDFParser._parse_line: None for a line without spans
_parse_line(line_data) ==
    LET spans == Flatten([i \in 1..Len(line_data.spans) |->
                             _parse_span(line_data.spans[i])])
    IN IF spans = <<>> THEN None
       ELSE <<TextLine(spans, line_data.bbox, None)>>

\* first_line.text.strip() starts with a list marker
StartsWithMarker(line) ==
    \E i \in 1..Len(line.spans) :
       /\ line.spans[i].text.lead = "bullet"
       /\ \A j \in 1..(i - 1) : line.spans[j].text.lead = "space"

\* PDFParser._detect_block_type
pdf_detect_block_type(lines) ==
    IF lines = <<>> THEN "paragraph"
    ELSE LET style == dominant_style(lines[1])[1]
         IN IF style.font_size > 14000 \/ style.font_weight = "bold" THEN "heading"
            ELSE IF StartsWithMarker(lines[1]) THEN "list_item"
            ELSE "paragraph"

\* PDFParser._detect_heading_level
_detect_heading_level(lines) ==
    LET size == dominant_style(lines[1])[1].font_size
    IN IF size >= 24000 THEN 1
       ELSE IF size >= 18000 THEN 2
       ELSE IF size >= 14000 THEN 3
       ELSE 4

\* the TextBlock of _parse_block, semantic_level set for a heading only
TypedBlock(block_id, block_type, lines, bbox, page_num, order) ==
    TextBlock(block_id, block_type, lines, bbox, page_num, order,
              IF block_type = "heading" THEN <<_detect_heading_level(lines)>>
              ELSE None)

\* _parse_block once the lines are parsed: None for a block without lines
ParsedBlock(block_data, page_num, order, block_counter, lines) ==
    [block |-> IF lines = <<>> THEN None
               ELSE <<TypedBlock(BlockId(page_num, block_counter),
                                 pdf_detect_block_type(lines), lines,
                                 block_data.bbox, page_num, order)>>,
     counter |-> block_counter]

\* PDFParser._parse_block(block_data, page_num, order) with
\* self._block_counter passed in and handed back
_parse_block(block_data, page_num, order, counter) ==
    ParsedBlock(block_data, page_num, order, counter + 1,
                Flatten([i \in 1..Len(block_data.lines) |->
                            _parse_line(block_data.lines[i])]))

\* block.text.strip() is empty: every span is white space
BlankBlock(block) ==
    \A i \in 1..Len(block.lines) : \A j \in 1..Len(block.lines[i].spans) :
       block.lines[i].spans[j].text.lead = "space"

\* sorted(blocks, key=lambda b: (b.bbox.y0, b.bbox.x0)): a stable sort
KeyBefore(a, b) ==
    a.bbox.y0 < b.bbox.y0 \/ (a.bbox.y0 = b.bbox.y0 /\ a.bbox.x0 < b.bbox.x0)

RECURSIVE InsertSorted(_, _)
InsertSorted(sorted, block) ==
    IF sorted = <<>> THEN <<block>>
    ELSE IF KeyBefore(block, Head(sorted)) THEN <<block>> \o sorted
    ELSE <<Head(sorted)>> \o InsertSorted(Tail(sorted), block)

RECURSIVE SortedByKey(_)
SortedByKey(blocks) ==
    IF blocks = <<>> THEN <<>>
    ELSE InsertSorted(SortedByKey(SubSeq(blocks, 1, Len(blocks) - 1)),
                      blocks[Len(blocks)])

\* PDFParser._sort_by_reading_order: two columns with a gap of more than
\* 20 pt are read one after the other, anything else top to bottom
_sort_by_reading_order(blocks, width) ==
    LET left_blocks  == SelectSeq(blocks, LAMBDA b : TwiceCenterX(b.bbox) < width)
        right_blocks == SelectSeq(blocks, LAMBDA b : TwiceCenterX(b.bbox) >= width)
    IN IF blocks = <<>> THEN blocks
       ELSE IF /\ left_blocks # <<>> /\ right_blocks # <<>>
               /\ MaxOf([i \in 1..Len(left_blocks) |-> left_blocks[i].bbox.x1])
                    < MinOf([i \in 1..Len(right_blocks) |-> right_blocks[i].bbox.x0])
                      - 20000
            THEN SortedByKey(left_blocks) \o SortedByKey(right_blocks)
       ELSE SortedByKey(blocks)

\* "if block and block.text.strip()" (pdf_parser.py:127-129): the block is
\* kept and counted
Kept(st, parsed) ==
    LET keep == parsed.block # None /\ ~ BlankBlock(parsed.block[1])
    IN [blocks |-> IF keep THEN Append(st.blocks, parsed.block[1]) ELSE st.blocks,
        reading_order |-> IF keep THEN st.reading_order + 1 ELSE st.reading_order,
        counter |-> parsed.counter]

RECURSIVE ExtractBlocksLoop(_, _, _)
\* the first loop of _extract_blocks: the text blocks that parse and have
\* text, numbered as they come
ExtractBlocksLoop(raw, page_num, st) ==
    IF raw = <<>> THEN st
    ELSE IF Head(raw).type # 0 THEN ExtractBlocksLoop(Tail(raw), page_num, st)
    ELSE ExtractBlocksLoop(Tail(raw), page_num,
            Kept(st, _parse_block(Head(raw), page_num, st.reading_order,
                                  st.counter)))

\* "Update reading_order after sorting" (pdf_parser.py:135-136)
Renumbered(sorted, counter) ==
    [blocks |-> [i \in 1..Len(sorted) |->
                    [sorted[i] EXCEPT !.reading_order = i - 1]],
     counter |-> counter]

\* the blocks of the first loop, sorted and renumbered
SortedBlocks(st, width) ==
    Renumbered(_sort_by_reading_order(st.blocks, width), st.counter)

\* PDFParser._extract_blocks: the blocks of the first loop, sorted, then
\* reading_order set to the position after sorting
_extract_blocks(page, page_num, counter) ==
    SortedBlocks(ExtractBlocksLoop(page.blocks, page_num,
                    [blocks |-> <<>>, reading_order |-> 0, counter |-> counter]),
                 page.width)

\* PDFParser._parse_page
_parse_page(page, page_num, extracted) ==
    DocumentPage(PageInfo(page_num, page.width, page.height, 0), extracted.blocks)

RECURSIVE ParsePages(_, _, _)
\* the page parsed from extracted in front of the pages that follow it
PagesFrom(raw_pages, page_num, extracted) ==
    LET rest == ParsePages(Tail(raw_pages), page_num + 1, extracted.counter)
    IN [pages |-> <<_parse_page(Head(raw_pages), page_num, extracted)>> \o rest.pages,
        counter |-> rest.counter]

\* [self._parse_page(page, page_num) for page_num, page in enumerate(doc, 1)]
ParsePages(raw_pages, page_num, counter) ==
    IF raw_pages = <<>> THEN [pages |-> <<>>, counter |-> counter]
    ELSE PagesFrom(raw_pages, page_num,
                   _extract_blocks(Head(raw_pages), page_num, counter))

\* the ParsedDocument of PDFParser.parse
PdfDocument(raw_pages, parsed) ==
    [document |-> ParsedDocument(
                     DocumentMetadata("file.pdf", "pdf", Len(raw_pages)),
                     parsed.pages),
     counter |-> parsed.counter]

\* PDFParser.parse: the counter starts again at 0
pdf_parse(raw_pages) == PdfDocument(raw_pages, ParsePages(raw_pages, 1, 0))

\* ------------------------------------- to_dict (models/document.py)
\* round(x, 2) of a value in thousandths: the nearest hundredth, a value
\* halfway between two hundredths going to the even one
Round2(x) ==
    LET low == (x \div 10) * 10
        r   == x - low
    IN IF r < 5 THEN low
       ELSE IF r > 5 THEN low + 10
       ELSE IF (low \div 10) % 2 = 0 THEN low ELSE low + 10

\* BoundingBox.to_dict
bbox_to_dict(b) ==
    [x0 |-> Round2(b.x0), y0 |-> Round2(b.y0), x1 |-> Round2(b.x1),
     y1 |-> Round2(b.y1), width |-> Round2(BoxWidth(b)),
     height |-> Round2(BoxHeight(b))]

\* TextStyle.to_dict: every field under its own name
style_to_dict(style) == style

\* TextSpan.to_dict
span_to_dict(span) ==
    [text |-> span.text, style |-> style_to_dict(span.style),
     bbox |-> bbox_to_dict(span.bbox)]

\* TextLine.to_dict
line_to_dict(line) ==
    [text |-> LineChars(line),
     spans |-> [i \in 1..Len(line.spans) |-> span_to_dict(line.spans[i])],
     bbox |-> bbox_to_dict(line.bbox), baseline_y |-> line.baseline_y]

\* TextBlock.avg_line_spacing (the quotient cut to thousandths)
avg_line_spacing(block) ==
    IF Len(block.lines) < 2 THEN None
    ELSE <<SumSeq([i \in 1..(Len(block.lines) - 1) |->
                      block.lines[i + 1].bbox.y0 - block.lines[i].bbox.y1])
             \div (Len(block.lines) - 1)>>

\* TextBlock.to_dict
block_to_dict(block) ==
    [block_id |-> block.block_id, block_type |-> block.block_type,
     text |-> BlockChars(block),
     lines |-> [i \in 1..Len(block.lines) |-> line_to_dict(block.lines[i])],
     bbox |-> bbox_to_dict(block.bbox), page_number |-> block.page_number,
     reading_order |-> block.reading_order,
     semantic_level |-> block.semantic_level,
     line_count |-> Len(block.lines),
     avg_line_spacing |-> avg_line_spacing(block)]

\* PageInfo.to_dict
info_to_dict(info) ==
    [page_number |-> info.page_number, width |-> Round2(info.width),
     height |-> Round2(info.height), rotation |-> info.rotation]

\* DocumentPage.to_dict
page_to_dict(page) ==
    [info |-> info_to_dict(page.info),
     blocks |-> [i \in 1..Len(page.blocks) |-> block_to_dict(page.blocks[i])]]

\* DocumentMetadata.to_dict: every field under its own name
metadata_to_dict(metadata) == metadata

\* ParsedDocument.to_dict
to_dict(doc) ==
    [metadata |-> metadata_to_dict(doc.metadata),
     pages |-> [i \in 1..Len(doc.pages) |-> page_to_dict(doc.pages[i])],
     summary |-> [total_blocks |-> SumSeq([i \in 1..Len(doc.pages) |->
                                              Len(doc.pages[i].blocks)]),
                  total_pages |-> Len(doc.pages)]]

\* LLMExporter.to_json: json.dumps of to_dict, compact or indented.  The
\* text holds the dict's values as json writes them: strings, integers,
\* floats with all their digits, true/false, null.
to_json(doc, compact) == [compact |-> compact, data |-> to_dict(doc)]

\* json.load / json.loads: the values written, whatever the layout
json_loads(text) == text.data

\* ------------------------------ processors/cache.py: _deserialize
_deserialize_bbox(bbox_data) ==
    BoundingBox(bbox_data.x0, bbox_data.y0, bbox_data.x1, bbox_data.y1)

\* DocumentCache._deserialize_span
_deserialize_span(data) ==
    TextSpan(data.text,
             [font_name |-> data.style.font_name,
              font_size |-> data.style.font_size,
              font_weight |-> data.style.font_weight,
              font_style |-> data.style.font_style,
              color |-> data.style.color,
              background_color |-> data.style.background_color,
              is_underline |-> data.style.is_underline,
              is_strikethrough |-> data.style.is_strikethrough,
              line_spacing |-> data.style.line_spacing,
              letter_spacing |-> data.style.letter_spacing],
             _deserialize_bbox(data.bbox))

\* DocumentCache._deserialize_line
_deserialize_line(data) ==
    TextLine([i \in 1..Len(data.spans) |-> _deserialize_span(data.spans[i])],
             _deserialize_bbox(data.bbox), data.baseline_y)

\* DocumentCache._deserialize_block
_deserialize_block(data) ==
    TextBlock(data.block_id, data.block_type,
              [i \in 1..Len(data.lines) |-> _deserialize_line(data.lines[i])],
              _deserialize_bbox(data.bbox), data.page_number,
              data.reading_order, data.semantic_level)

\* DocumentCache._deserialize_page
_deserialize_page(data) ==
    DocumentPage(PageInfo(data.info.page_number, data.info.width,
                          data.info.height, data.info.rotation),
                 [i \in 1..Len(data.blocks) |-> _deserialize_block(data.blocks[i])])

\* DocumentCache._deserialize
_deserialize(data) ==
    ParsedDocument(
        [filename |-> data.metadata.filename,
         document_type |-> data.metadata.document_type,
         total_pages |-> data.metadata.total_pages,
         file_size_bytes |-> data.metadata.file_size_bytes,
         title |-> data.metadata.title, author |-> data.metadata.author,
         creation_date |-> data.metadata.creation_date,
         modification_date |-> data.metadata.modification_date,
         content_hash |-> data.metadata.content_hash],
        [i \in 1..Len(data.pages) |-> _deserialize_page(data.pages[i])])

\* ------------------- exporters/llm_exporter.py: to_retrieval_chunks
\* sorted(page.blocks, key=lambda b: b.reading_order): a stable sort
RECURSIVE InsertByOrder(_, _)
InsertByOrder(sorted, block) ==
    IF sorted = <<>> THEN <<block>>
    ELSE IF block.reading_order < Head(sorted).reading_order
         THEN <<block>> \o sorted
    ELSE <<Head(sorted)>> \o InsertByOrder(Tail(sorted), block)

RECURSIVE SortedByOrder(_)
SortedByOrder(blocks) ==
    IF blocks = <<>> THEN <<>>
    ELSE InsertByOrder(SortedByOrder(SubSeq(blocks, 1, Len(blocks) - 1)),
                       blocks[Len(blocks)])

\* "\n".join(texts), the texts given by their lengths: the pieces and the
\* length of the joined text
Joined(lengths) ==
    [pieces |-> lengths,
     chars |-> IF lengths = <<>> THEN 0 ELSE SumSeq(lengths) + Len(lengths) - 1]

\* Chunk with the bbox of the first block in place of the union
Chunk_first_block_bbox(chunk_id, texts, blocks, page_number, include_metadata) ==
    [chunk_id |-> chunk_id, text |-> Joined(texts), page |-> page_number,
     block_ids |-> [i \in 1..Len(blocks) |-> blocks[i].block_id],
     bbox |-> IF include_metadata THEN <<blocks[1].bbox>> ELSE None,
     block_types |-> IF include_metadata
                     THEN [i \in 1..Len(blocks) |-> blocks[i].block_type]
                     ELSE <<>>]

\* the chunk dict built from current_chunk_text and current_chunk_blocks
Chunk(chunk_id, texts, blocks, page_number, include_metadata) ==
    [chunk_id |-> chunk_id, text |-> Joined(texts), page |-> page_number,
     block_ids |-> [i \in 1..Len(blocks) |-> blocks[i].block_id],
     bbox |-> IF include_metadata
              THEN <<BoundingBox(MinOf([i \in 1..Len(blocks) |-> blocks[i].bbox.x0]),
                                 MinOf([i \in 1..Len(blocks) |-> blocks[i].bbox.y0]),
                                 MaxOf([i \in 1..Len(blocks) |-> blocks[i].bbox.x1]),
                                 MaxOf([i \in 1..Len(blocks) |-> blocks[i].bbox.y1]))>>
              ELSE None,
     block_types |-> IF include_metadata
                     THEN [i \in 1..Len(blocks) |-> blocks[i].block_type]
                     ELSE <<>>]

\* ChunkStep with the overlap taken from the whole text of the flushed chunk
ChunkStep_sliding_window(st, block, page_number, max_chunk_size, overlap, include_metadata) ==
    LET block_size == BlockChars(block)
        flush == st.size + block_size > max_chunk_size /\ st.texts # <<>>
        last_block == st.blocks[Len(st.blocks)]
        carried == Min(overlap, Joined(st.texts).chars)
        begun == IF ~ flush THEN st
                 ELSE [chunks |-> Append(st.chunks,
                                         Chunk(st.chunk_id, st.texts, st.blocks,
                                               page_number, include_metadata)),
                       chunk_id |-> st.chunk_id + 1,
                       texts |-> IF overlap > 0 THEN <<carried>> ELSE <<>>,
                       blocks |-> IF overlap > 0 THEN <<last_block>> ELSE <<>>,
                       size |-> IF overlap > 0 THEN carried ELSE 0]
    IN [begun EXCEPT !.texts = Append(@, block_size),
                     !.blocks = Append(@, block),
                     !.size = @ + block_size]

\* one iteration of the loop over the blocks of a page
ChunkStep(st, block, page_number, max_chunk_size, overlap, include_metadata) ==
    LET block_size == BlockChars(block)
        flush == st.size + block_size > max_chunk_size /\ st.texts # <<>>
        last_block == st.blocks[Len(st.blocks)]
        carried == Min(overlap, BlockChars(last_block))
        begun == IF ~ flush THEN st
                 ELSE [chunks |-> Append(st.chunks,
                                         Chunk(st.chunk_id, st.texts, st.blocks,
                                               page_number, include_metadata)),
                       chunk_id |-> st.chunk_id + 1,
                       texts |-> IF overlap > 0 THEN <<carried>> ELSE <<>>,
                       blocks |-> IF overlap > 0 THEN <<last_block>> ELSE <<>>,
                       size |-> IF overlap > 0 THEN carried ELSE 0]
    IN [begun EXCEPT !.texts = Append(@, block_size),
                     !.blocks = Append(@, block),
                     !.size = @ + block_size]

RECURSIVE ChunkBlocks(_, _, _, _, _, _)
\* the loop over the blocks reached with state next
ChunkNext(next, blocks, page_number, max_chunk_size, overlap, include_metadata) ==
    IF Computed(next)
    THEN ChunkBlocks(next, blocks, page_number, max_chunk_size, overlap,
                     include_metadata)
    ELSE next

ChunkBlocks(st, blocks, page_number, max_chunk_size, overlap, include_metadata) ==
    IF blocks = <<>> THEN st
    ELSE ChunkNext(ChunkStep(st, Head(blocks), page_number, max_chunk_size,
                             overlap, include_metadata),
                   Tail(blocks), page_number, max_chunk_size, overlap,
                   include_metadata)

\* "Don't forget last chunk" of a page (llm_exporter.py:223-242)
Closed(st, page_number, include_metadata) ==
    IF st.texts # <<>>
    THEN [chunks |-> Append(st.chunks,
                            Chunk(st.chunk_id, st.texts, st.blocks, page_number,
                                  include_metadata)),
          chunk_id |-> st.chunk_id + 1]
    ELSE [chunks |-> st.chunks, chunk_id |-> st.chunk_id]

RECURSIVE ChunkPages(_, _, _, _, _, _)
\* the loop over the pages reached with the chunks and chunk_id of closed
ChunkNextPage(doc_pages, closed, max_chunk_size, overlap, include_metadata) ==
    IF Computed(closed)
    THEN ChunkPages(doc_pages, closed.chunks, closed.chunk_id, max_chunk_size,
                    overlap, include_metadata)
    ELSE closed.chunks

\* the chunks of one page added to those before
ChunkPage(page, chunks, chunk_id, max_chunk_size, overlap, include_metadata) ==
    Closed(ChunkBlocks([chunks |-> chunks, chunk_id |-> chunk_id,
                        texts |-> <<>>, blocks |-> <<>>, size |-> 0],
                       SortedByOrder(page.blocks), page.info.page_number,
                       max_chunk_size, overlap, include_metadata),
           page.info.page_number, include_metadata)

\* the loop over doc.pages: chunks never span two pages
ChunkPages(doc_pages, chunks, chunk_id, max_chunk_size, overlap, include_metadata) ==
    IF doc_pages = <<>> THEN chunks
    ELSE ChunkNextPage(Tail(doc_pages),
                       ChunkPage(Head(doc_pages), chunks, chunk_id, max_chunk_size,
                                 overlap, include_metadata),
                       max_chunk_size, overlap, include_metadata)

\* LLMExporter.to_retrieval_chunks
to_retrieval_chunks(doc, max_chunk_size, overlap, include_metadata) ==
    ChunkPages(doc.pages, <<>>, 0, max_chunk_size, overlap, include_metadata)

\* --------------------------------------------------------------
\* LLMExporter.to_semantic_sections.  A text is given by its length, the
\* text of a section by the lengths of the block texts joined by "\n\n".
Section(heading, heading_level, page_number) ==
    [heading |-> heading, heading_level |-> heading_level, text |-> <<>>,
     blocks |-> <<>>, page_start |-> page_number, page_end |-> page_number]

\* block.semantic_level or 1
LevelOrOne(block) ==
    IF block.semantic_level = None \/ block.semantic_level = <<0>> THEN 1
    ELSE block.semantic_level[1]

\* the branch for a heading block: the open section is closed and a new
\* one begins, whatever the level of the heading
BeginSection(st, block, page_number) ==
    [sections |-> IF st.current # None THEN Append(st.sections, st.current[1])
                  ELSE st.sections,
     current |-> <<Section(<<BlockChars(block)>>, LevelOrOne(block), page_number)>>]

\* the branch for any other block, current being the open section
AddContent(st, current, block, page_number) ==
    [sections |-> st.sections,
     current |-> <<[current EXCEPT !.text = Append(@, BlockChars(block)),
                                   !.blocks = Append(@, block.block_id),
                                   !.page_end = page_number]>>]

\* SectionStep with a section running "until the next heading of same or
\* higher level": a deeper heading is kept as content of the open section
SectionStep_until_same_or_higher_level(st, block, page_number) ==
    IF /\ block.block_type = "heading"
       /\ \/ st.current = None
          \/ st.current[1].heading = None
          \/ LevelOrOne(block) <= st.current[1].heading_level
    THEN BeginSection(st, block, page_number)
    ELSE AddContent(st, IF st.current = None THEN Section(None, 0, page_number)
                        ELSE st.current[1],
                    block, page_number)

\* one iteration of the loop over the blocks of a page
SectionStep(st, block, page_number) ==
    IF block.block_type = "heading"
    THEN BeginSection(st, block, page_number)
    ELSE AddContent(st, IF st.current = None THEN Section(None, 0, page_number)
                        ELSE st.current[1],
                    block, page_number)

RECURSIVE SectionBlocks(_, _, _)
SectionNext(next, blocks, page_number) ==
    IF Computed(next) THEN SectionBlocks(next, blocks, page_number) ELSE next

\* for block in sorted(page.blocks, key=lambda b: b.reading_order)
SectionBlocks(st, blocks, page_number) ==
    IF blocks = <<>> THEN st
    ELSE SectionNext(SectionStep(st, Head(blocks), page_number), Tail(blocks),
                     page_number)

RECURSIVE SectionPages(_, _)
SectionNextPage(next, doc_pages) ==
    IF Computed(next) THEN SectionPages(next, doc_pages) ELSE next

\* for page in doc.pages
SectionPages(st, doc_pages) ==
    IF doc_pages = <<>> THEN st
    ELSE SectionNextPage(SectionBlocks(st, SortedByOrder(Head(doc_pages).blocks),
                                       Head(doc_pages).info.page_number),
                         Tail(doc_pages))

\* if current_section: sections.append(current_section)
LastSection(st) ==
    IF st.current # None THEN Append(st.sections, st.current[1]) ELSE st.sections

\* LLMExporter.to_semantic_sections
to_semantic_sections(doc) ==
    LastSection(SectionPages([sections |-> <<>>, current |-> None], doc.pages))

\* --------------------------------------------------- sampled files
\* A 12 pt paragraph of plain text in one run, in the style Normal.
Body(chars) ==
    Paragraph(Text("word", chars), <<Run(Text("word", chars), None)>>,
              "normal", None)
\* An empty paragraph.
EmptyParagraph == Paragraph(Text("word", 0), <<>>, "normal", None)
\* A 12 pt paragraph in the style Heading 1.
HeadingParagraph(chars) ==
    Paragraph(Text("word", chars), <<Run(Text("word", chars), None)>>,
              "heading 1", None)

\* total characters in k paragraphs of equal length (the last one takes
\* the remainder)
EvenSplit(total, k) ==
    [i \in 1..k |-> Body(IF i < k THEN total \div k
                         ELSE total - (k - 1) * (total \div k))]

\* DOCX files with TextChars characters of 12 pt text and no page break:
\* in k equal paragraphs, the same with an empty paragraph in front, with
\* a 20-character heading in front, after a paragraph of 400 and one of 30
\* characters, or after one long first paragraph.
DocxSources ==
    UNION {{EvenSplit(TextChars, k),
            <<EmptyParagraph>> \o EvenSplit(TextChars, k),
            <<HeadingParagraph(20)>> \o EvenSplit(TextChars - 20, k),
            <<Body(400), Body(30)>> \o EvenSplit(TextChars - 430, k),
            <<Body((TextChars * 4) \div 5)>>
               \o EvenSplit(TextChars - (TextChars * 4) \div 5, k)}
           : k \in 1..MaxParts}

\* A PDF text block of one line and one span, as PyMuPDF reports it.
RawText(text, size, flags, bbox) ==
    RawBlock(0, bbox, <<RawLine(<<RawSpan(text, size, flags, 0, bbox)>>, bbox)>>)

\* Pages of a PDF file: two blocks listed bottom first; two columns and an
\* image; a bold heading, a block of white space, a block without lines and
\* a two-line list item; a paragraph, a 24 pt heading, a paragraph, a bold
\* 12 pt heading and two paragraphs; a page without blocks.
PdfLayouts ==
    {RawPage(595276, 841890,
             <<RawText(Text("word", 300), 12000, {},
                       BoundingBox(72024, 400125, 523276, 460333)),
               RawText(Text("word", 250), 12000, {},
                       BoundingBox(72024, 100125, 523276, 160333))>>),
     RawPage(595276, 841890,
             <<RawText(Text("word", 120), 10000, {1},
                       BoundingBox(320000, 90000, 540000, 300000)),
               RawBlock(1, BoundingBox(72000, 500000, 200000, 600000), <<>>),
               RawText(Text("word", 400), 10000, {},
                       BoundingBox(60000, 120000, 280000, 300000)),
               RawText(Text("word", 90), 10000, {},
                       BoundingBox(320000, 310000, 540000, 400000))>>),
     RawPage(595000, 842000,
             <<RawText(Text("space", 3), 12000, {},
                       BoundingBox(72000, 60000, 90000, 72000)),
               RawBlock(0, BoundingBox(72000, 80000, 90000, 90000),
                        <<RawLine(<<RawSpan(Text("word", 0), 12000, {}, 0,
                                            BoundingBox(72000, 80000, 72000, 90000))>>,
                                  BoundingBox(72000, 80000, 90000, 90000))>>),
               RawBlock(0, BoundingBox(72000, 150000, 523000, 180000),
                        <<RawLine(<<RawSpan(Text("bullet", 60), 12000, {}, 16711680,
                                            BoundingBox(72000, 150000, 400000, 164000))>>,
                                  BoundingBox(72000, 150000, 400000, 164000)),
                          RawLine(<<RawSpan(Text("word", 30), 12000, {2}, 0,
                                            BoundingBox(72000, 166000, 300000, 180000))>>,
                                  BoundingBox(72000, 166000, 300000, 180000))>>),
               RawText(Text("word", 18), 16000, {4},
                       BoundingBox(72000, 100000, 523000, 120000))>>),
     RawPage(595000, 842000,
             <<RawText(Text("word", 40), 12000, {},
                       BoundingBox(72000, 60000, 523000, 75000)),
               RawText(Text("word", 12), 24000, {},
                       BoundingBox(72000, 90000, 523000, 120000)),
               RawText(Text("word", 200), 12000, {},
                       BoundingBox(72000, 130000, 523000, 180000)),
               RawText(Text("word", 15), 12000, {4},
                       BoundingBox(72000, 190000, 523000, 205000)),
               RawText(Text("word", 150), 12000, {},
                       BoundingBox(72000, 210000, 523000, 250000)),
               RawText(Text("word", 80), 12000, {},
                       BoundingBox(72000, 260000, 523000, 290000))>>),
     RawPage(595000, 842000, <<>>)}

PdfSources ==
    UNION {[1..n -> PdfLayouts] : n \in 1..MaxPdfPages}

\* the arguments the exporter is called with
ChunkSizes == {500, 1000}
Overlaps == {0, 50}

\* ----------------------------------------- specification of the parsers
\* reused: the latest parse call was not the first one of this instance
ParserInstance(kind, counter, reused) ==
    [kind |-> kind, _block_counter |-> counter, reused |-> reused]

NotExported == [op |-> "none"]

\* PDFParser() or DOCXParser()
InitParser ==
    /\ parser \in {ParserInstance(kind, 0, FALSE) : kind \in {"pdf", "docx"}}
    /\ document = None
    /\ exported = NotExported
    /\ EngineUnused /\ GeometryUnused /\ BatchUnused
    /\ DocumentCacheUnused /\ MemoryCacheUnused
    /\ RulesUnused /\ RendererUnused /\ ProcessorUnused /\ WorkersUnused

\* parse returns result: the instance keeps the counter, the caller the document
ParseReturns(kind, result) ==
    /\ parser' = ParserInstance(kind, result.counter, document # None)
    /\ document' = <<result.document>>
    /\ exported' = NotExported
    /\ UNCHANGED outside_parser

\* parser.parse(source) on a DOCXParser
DocxParse(source) ==
    /\ parser.kind = "docx"
    /\ ParseReturns("docx", docx_parse(source))

\* parser.parse(source) on a PDFParser
PdfParse(source) ==
    /\ parser.kind = "pdf"
    /\ ParseReturns("pdf", pdf_parse(source))

\* LLMExporter.to_json(doc, compact) read back with json.loads and
\* DocumentCache._deserialize
JsonRoundTrip(compact) ==
    /\ document # None
    /\ exported' = [op |-> "json",
                    value |-> _deserialize(json_loads(to_json(document[1], compact)))]
    /\ UNCHANGED <<parser, document, outside_parser>>

\* LLMExporter.to_retrieval_chunks(doc, max_chunk_size, overlap)
RetrievalChunks(max_chunk_size, overlap) ==
    /\ document # None
    /\ exported' = [op |-> "chunks", max_chunk_size |-> max_chunk_size,
                    overlap |-> overlap,
                    value |-> to_retrieval_chunks(document[1], max_chunk_size,
                                                  overlap, TRUE)]
    /\ UNCHANGED <<parser, document, outside_parser>>

\* LLMExporter.to_semantic_sections(doc)
SemanticSections ==
    /\ document # None
    /\ exported' = [op |-> "sections", value |-> to_semantic_sections(document[1])]
    /\ UNCHANGED <<parser, document, outside_parser>>

NextParser ==
    \/ \E source \in DocxSources : DocxParse(source)
    \/ \E source \in PdfSources : PdfParse(source)
    \/ \E compact \in BOOLEAN : JsonRoundTrip(compact)
    \/ \E max_chunk_size \in ChunkSizes, overlap \in Overlaps :
          RetrievalChunks(max_chunk_size, overlap)
    \/ SemanticSections

SpecParser == InitParser /\ [][NextParser]_parser_vars

\* ---------------------------------------------- properties (parsers)
\* every block of the parsed document, page after page
AllBlocks == Flatten([i \in 1..Len(document[1].pages) |-> document[1].pages[i].blocks])

\* C11: on every page of a document returned by either parser the
\* reading_order values of the blocks are exactly 0..N-1, N being the
\* number of blocks of the page.
C11_ReadingOrderDense ==
    document # None =>
       \A p \in 1..Len(document[1].pages) :
          LET blocks == document[1].pages[p].blocks
          IN {blocks[i].reading_order : i \in 1..Len(blocks)} = 0..(Len(blocks) - 1)

\* C12: a DOCX file with 5000 characters of 12 pt text and no page break
\* gives at least 2 pages, and on every page the blocks lie inside the
\* usable height (y0 <= y1 <= page_height - margin_top) and do not overlap
\* one another in Y.
C12_ForcedPagination ==
    (/\ document # None
     /\ parser.kind = "docx"
     /\ SumSeq([i \in 1..Len(AllBlocks) |-> AllBlocks[i].lines[1].spans[1].text.chars])
           = TextChars)
    => /\ Len(document[1].pages) >= 2
       /\ \A p \in 1..Len(document[1].pages) :
             LET blocks == document[1].pages[p].blocks
             IN /\ \A i \in 1..Len(blocks) :
                      /\ blocks[i].bbox.y0 <= blocks[i].bbox.y1
                      /\ blocks[i].bbox.y1 <= page_height - margin_top
                /\ \A i, j \in 1..Len(blocks) :
                      i < j => \/ blocks[i].bbox.y1 <= blocks[j].bbox.y0
                               \/ blocks[j].bbox.y1 <= blocks[i].bbox.y0

\* C13: no two blocks of one parsed document have the same block_id.
C13_BlockIdsUnique ==
    document # None =>
       \A i, j \in 1..Len(AllBlocks) :
          i # j => AllBlocks[i].block_id # AllBlocks[j].block_id

\* C13 witness: a DOCX parser that is used again returns a document of two
\* or more pages, one of them begun by a paragraph that was laid out a
\* second time (its counter value is two above that of the block before).
C13_Witness ==
    /\ document # None
    /\ parser.kind = "docx" /\ parser.reused
    /\ Len(AllBlocks) >= 3
    /\ Len(document[1].pages) >= 2
    /\ parser._block_counter > Len(AllBlocks)

\* C14: the document read back from its JSON export equals the original in
\* all fields.
C14_JsonRoundTrip ==
    exported.op = "json" => exported.value = document[1]

\* C20: every chunk's text is at most max_chunk_size characters long,
\* except a chunk made of a single block that alone is longer.
C20_ChunksBounded ==
    exported.op = "chunks" =>
       \A c \in 1..Len(exported.value) :
          LET chunk == exported.value[c]
          IN \/ chunk.text.chars <= exported.max_chunk_size
             \/ /\ Len(chunk.block_ids) = 1
                /\ chunk.text.pieces[1] > exported.max_chunk_size

\* the block of the document with this block_id
BlockById(block_id) ==
    CHOOSE b \in {AllBlocks[i] : i \in 1..Len(AllBlocks)} : b.block_id = block_id

\* the blocks a chunk lists in block_ids
ChunkBlocksOf(chunk) == [i \in 1..Len(chunk.block_ids) |-> BlockById(chunk.block_ids[i])]

C26_OverlapIsTailOfLastBlock ==
    exported.op = "chunks" =>
       \A c \in 1..Len(exported.value) :
          LET chunk == exported.value[c]
              first == BlockById(chunk.block_ids[1])
              follows == c > 1 /\ exported.value[c - 1].page = chunk.page
              prev == exported.value[c - 1]
          IN IF follows /\ exported.overlap > 0
             THEN /\ chunk.block_ids[1] = prev.block_ids[Len(prev.block_ids)]
                  /\ chunk.text.pieces[1] = Min(exported.overlap, BlockChars(first))
             ELSE IF follows
             THEN /\ \A i \in 1..Len(prev.block_ids) :
                        prev.block_ids[i] # chunk.block_ids[1]
                  /\ chunk.text.pieces[1] = BlockChars(first)
             ELSE /\ first.page_number = chunk.page
                  /\ chunk.text.pieces[1] = BlockChars(first)

\* C26 witness: with overlap > 0 a chunk follows, on the same page, a
\* chunk of several blocks whose last block is shorter than the overlap,
\* and the document has a later page begun by a whole block.
C26_Witness ==
    /\ exported.op = "chunks" /\ exported.overlap > 0
    /\ \E c \in 2..Len(exported.value) :
          /\ exported.value[c - 1].page = exported.value[c].page
          /\ Len(exported.value[c - 1].block_ids) >= 2
          /\ exported.value[c].text.pieces[1] < exported.overlap
          /\ exported.value[c].text.pieces[1] < exported.value[c - 1].text.chars
    /\ \E c \in 2..Len(exported.value) :
          exported.value[c - 1].page # exported.value[c].page

\* C29: the pages of a document returned by DOCXParser are numbered
\* 1, 2, ..., P, metadata.total_pages is P, and every block carries the
\* number of the page that holds it.
C29_DocxPagesNumbered ==
    (document # None /\ parser.kind = "docx") =>
       /\ document[1].metadata.total_pages = Len(document[1].pages)
       /\ \A p \in 1..Len(document[1].pages) :
             /\ document[1].pages[p].info.page_number = p
             /\ \A i \in 1..Len(document[1].pages[p].blocks) :
                   document[1].pages[p].blocks[i].page_number
                      = document[1].pages[p].info.page_number

\* the blocks of the document in document reading order: page after page,
\* the blocks of a page by reading_order
OrderedBlocks ==
    Flatten([i \in 1..Len(document[1].pages) |->
                SortedByOrder(document[1].pages[i].blocks)])

HeadingBlocks == SelectSeq(OrderedBlocks, LAMBDA b : b.block_type = "heading")

BeginsWithContent ==
    OrderedBlocks # <<>> /\ OrderedBlocks[1].block_type # "heading"

rects_overlap(r1, r2) ==
    /\ r1.x0 < r2.x1
    /\ r1.x1 > r2.x0
    /\ r1.y0 < r2.y1
    /\ r1.y1 > r2.y0

\* rect_contains(outer, inner)
rect_contains(outer, inner) ==
    /\ outer.x0 <= inner.x0
    /\ outer.y0 <= inner.y0
    /\ outer.x1 >= inner.x1
    /\ outer.y1 >= inner.y1

\* ------------------------------ specification of the box predicates
\* any four corner values, also those of a box turned inside out
Boxes ==
    {BoundingBox(x0, y0, x1, y1) : x0 \in 0..MaxCoord, y0 \in 0..MaxCoord,
                                   x1 \in 0..MaxCoord, y1 \in 0..MaxCoord}

InitGeometry ==
    /\ geometry \in {[a |-> a, b |-> b, asked |-> "nothing"] : a \in Boxes, b \in Boxes}
    /\ EngineUnused /\ ParserUnused /\ BatchUnused
    /\ DocumentCacheUnused /\ MemoryCacheUnused
    /\ RulesUnused /\ RendererUnused /\ ProcessorUnused /\ WorkersUnused

\* a.overlaps(b), b.overlaps(a), a.overlaps(a), a.contains(a), a.contains(b)
BoundingBoxPredicates ==
    /\ geometry.asked = "nothing"
    /\ geometry' = [a |-> geometry.a, b |-> geometry.b, asked |-> "BoundingBox",
                    overlaps_ab |-> overlaps(geometry.a, geometry.b),
                    overlaps_ba |-> overlaps(geometry.b, geometry.a),
                    overlaps_aa |-> overlaps(geometry.a, geometry.a),
                    contains_aa |-> contains(geometry.a, geometry.a),
                    contains_ab |-> contains(geometry.a, geometry.b)]
    /\ UNCHANGED outside_geometry

\* the same questions put to rects_overlap and rect_contains
RectPredicates ==
    /\ geometry.asked = "nothing"
    /\ geometry' = [a |-> geometry.a, b |-> geometry.b, asked |-> "Rect",
                    overlaps_ab |-> rects_overlap(geometry.a, geometry.b),
                    overlaps_ba |-> rects_overlap(geometry.b, geometry.a),
                    overlaps_aa |-> rects_overlap(geometry.a, geometry.a),
                    contains_aa |-> rect_contains(geometry.a, geometry.a),
                    contains_ab |-> rect_contains(geometry.a, geometry.b)]
    /\ UNCHANGED outside_geometry

NextGeometry == BoundingBoxPredicates \/ RectPredicates

SpecGeometry == InitGeometry /\ [][NextGeometry]_geometry

\* C15: a box with x1 >= x0 and y1 >= y0, zero width or height included,
\* overlaps itself and contains itself, and overlaps gives the same answer
\* in both directions for any two boxes.
C15_ReflexiveSymmetric ==
    geometry.asked # "nothing" =>
       /\ (geometry.a.x1 >= geometry.a.x0 /\ geometry.a.y1 >= geometry.a.y0)
             => (geometry.overlaps_aa /\ geometry.contains_aa)
       /\ geometry.overlaps_ab = geometry.overlaps_ba

\* ------------------------------------ processors/async_processor.py
\* The paths a caller passes; "./a.pdf" is another spelling of "a.pdf".
InputPaths == {"a.pdf", "./a.pdf", "b.docx"}

\* str(Path(filepath))
PathStr(filepath) == IF filepath = "./a.pdf" THEN "a.pdf" ELSE filepath

\* What happens to the task of a file: ParserFactory.parse returns a
\* document ("parsed"), raises an exception with a message ("parse_error"),
\* raises one whose str() is empty ("silent_error"), or the worker or the
\* executor fails so that awaiting the future raises ("worker_failed").
Fates == {"parsed", "parse_error", "silent_error", "worker_failed"}

\* _parse_single_document(filepath, "auto"): the tuple the future gives, or
\* raised when the worker itself fails
_parse_single_document(filepath, fate) ==
    CASE fate = "parsed" ->
           [raised |-> FALSE, filepath |-> PathStr(filepath),
            doc |-> "ParsedDocument", error |-> None]
      [] fate = "parse_error" ->
           [raised |-> FALSE, filepath |-> PathStr(filepath),
            doc |-> "None", error |-> <<"message">>]
      [] fate = "silent_error" ->
           [raised |-> FALSE, filepath |-> PathStr(filepath),
            doc |-> "None", error |-> <<"">>]
      [] OTHER -> [raised |-> TRUE]

\* bool(error) of the tuple's third item: None and "" are false
Truthy(error) == error # None /\ error # <<"">>

\* results[key] = value
Assign(results, key, value) ==
    [k \in DOMAIN results \cup {key} |-> IF k = key THEN value ELSE results[k]]

\* process_batch up to the first await: the empty list returns {} at once,
\* otherwise one future per list entry is submitted
Submitted(filepaths, fates, on_progress) ==
    [filepaths |-> filepaths, fates |-> fates, on_progress |-> on_progress,
     pending |-> 1..Len(filepaths), results |-> <<>>, completed |-> 0,
     calls |-> <<>>,
     status |-> IF filepaths = <<>> THEN "returned" ELSE "running"]

\* futures[future] in the except branch: as_completed yields its own
\* awaitables, which are not keys of the futures dict, so the lookup raises
\* KeyError
FuturesLookupRaises == TRUE

\* One iteration of "for future in asyncio.as_completed(...)": the future
\* of list entry i is the next to complete.  After the last iteration the
\* results are returned.
AfterCompletion(b, i) ==
    LET out     == _parse_single_document(b.filepaths[i], b.fates[PathStr(b.filepaths[i])])
        total   == Len(b.filepaths)
        pending == b.pending \ {i}
        done    == IF pending = {} THEN "returned" ELSE "running"
    IN IF out.raised
       THEN IF FuturesLookupRaises
            THEN [b EXCEPT !.pending = pending, !.status = "raised"]
            ELSE [b EXCEPT !.pending = pending,
                           !.results = Assign(@, PathStr(b.filepaths[i]), "Error: message"),
                           !.completed = @ + 1,
                           !.status = done]
       ELSE [b EXCEPT
               !.pending = pending,
               !.results = Assign(@, out.filepath,
                                  IF Truthy(out.error) THEN "Error: message"
                                  ELSE out.doc),
               !.completed = @ + 1,
               !.calls = IF b.on_progress
                         THEN Append(@, [completed |-> b.completed + 1,
                                         total |-> total,
                                         filepath |-> out.filepath])
                         ELSE @,
               !.status = done]

\* --------------------------------- specification of process_batch
InitBatch ==
    /\ \E n \in 0..MaxFiles :
       \E filepaths \in [1..n -> InputPaths] :
       \E fates \in [{PathStr(f) : f \in InputPaths} -> Fates] :
       \E on_progress \in BOOLEAN :
          batch = Submitted(filepaths, fates, on_progress)
    /\ EngineUnused /\ ParserUnused /\ GeometryUnused
    /\ DocumentCacheUnused /\ MemoryCacheUnused
    /\ RulesUnused /\ RendererUnused /\ ProcessorUnused /\ WorkersUnused

\* the future of list entry i completes and the loop handles it
FutureCompletes(i) ==
    /\ batch.status = "running"
    /\ i \in batch.pending
    /\ batch' = AfterCompletion(batch, i)
    /\ UNCHANGED outside_batch

NextBatch == \E i \in 1..MaxFiles : FutureCompletes(i)

SpecBatch == InitBatch /\ [][NextBatch]_batch

\* C16: process_batch does not raise, and the map it returns has an entry
\* for every input path that is the ParsedDocument or an error string.
C16_EveryFileReported ==
    /\ batch.status # "raised"
    /\ batch.status = "returned" =>
          \A i \in 1..Len(batch.filepaths) :
             /\ PathStr(batch.filepaths[i]) \in DOMAIN batch.results
             /\ batch.results[PathStr(batch.filepaths[i])]
                   \in {"ParsedDocument", "Error: message"}

\* C17: with a callback given, there is one call for every completed file,
\* succeeded or failed, and the k-th call reports k of N.
C17_ProgressEveryFile ==
    batch.on_progress =>
       /\ Len(batch.calls) = Len(batch.filepaths) - Cardinality(batch.pending)
       /\ \A k \in 1..Len(batch.calls) :
             /\ batch.calls[k].completed = k
             /\ batch.calls[k].total = Len(batch.filepaths)

\* ------------------------------------------- processors/cache.py
\* DocumentCache(cache_dir, max_size_mb).max_size_bytes
max_size_bytes == MaxCacheBytes

\* _get_cache_key of the documents that are cached
CacheKeys == {"k1", "k2", "k3"}

\* sizes of the JSON text of the documents that are cached
JsonSizes == {2, 3}

\* The cache directory is the sequence of its *.json files, the one
\* modified longest ago first.
CacheFile(key, size) == [key |-> key, size |-> size]

\* sum(f.stat().st_size for f in cache_files)
total_size(files) == SumSeq([i \in 1..Len(files) |-> files[i].size])

\* cache_path.exists()
Exists(files, key) == \E i \in 1..Len(files) : files[i].key = key

\* cache_path.unlink()
Unlinked(files, key) == SelectSeq(files, LAMBDA f : f.key # key)

\* the loop of _ensure_cache_size over the files sorted by st_mtime:
\* unlink the oldest until the total is at most 80% of the limit
RECURSIVE RemoveOldest(_)
RemoveOldest(files) ==
    IF files = <<>> \/ 10 * total_size(files) <= 8 * max_size_bytes
    THEN files
    ELSE RemoveOldest(Tail(files))

\* DocumentCache._ensure_cache_size
_ensure_cache_size(files) ==
    IF files = <<>> THEN files
    ELSE IF total_size(files) <= max_size_bytes THEN files
    ELSE RemoveOldest(files)

\* DocumentCache.set: _ensure_cache_size() runs first, then the file is
\* written (an existing file of the key is overwritten and becomes the
\* most recently modified)
cache_set(files, key, size) ==
    Append(Unlinked(_ensure_cache_size(files), key), CacheFile(key, size))

\* DocumentCache.get: the document of the file, or None
cache_get(files, key) ==
    IF Exists(files, key) THEN "ParsedDocument" ELSE "None"

\* DocumentCache.invalidate: the directory afterwards and the answer
invalidate(files, key) ==
    [files |-> Unlinked(files, key), removed |-> Exists(files, key)]

\* ----------------------------------- specification of DocumentCache
InitDocumentCache ==
    /\ cache_dir = [files |-> <<>>, op |-> "init", key |-> None, result |-> None]
    /\ EngineUnused /\ ParserUnused /\ GeometryUnused
    /\ BatchUnused /\ MemoryCacheUnused
    /\ RulesUnused /\ RendererUnused /\ ProcessorUnused /\ WorkersUnused

DocumentCacheSet(key, size) ==
    /\ cache_dir' = [files |-> cache_set(cache_dir.files, key, size),
                     op |-> "set", key |-> key, result |-> TRUE]
    /\ UNCHANGED outside_document_cache

DocumentCacheGet(key) ==
    /\ cache_dir' = [files |-> cache_dir.files,
                     op |-> "get", key |-> key,
                     result |-> cache_get(cache_dir.files, key)]
    /\ UNCHANGED outside_document_cache

DocumentCacheInvalidate(key) ==
    /\ cache_dir' = [files |-> invalidate(cache_dir.files, key).files,
                     op |-> "invalidate", key |-> key,
                     result |-> invalidate(cache_dir.files, key).removed]
    /\ UNCHANGED outside_document_cache

NextDocumentCache ==
    \/ \E key \in CacheKeys, size \in JsonSizes : DocumentCacheSet(key, size)
    \/ \E key \in CacheKeys : DocumentCacheGet(key)
    \/ \E key \in CacheKeys : DocumentCacheInvalidate(key)

SpecDocumentCache == InitDocumentCache /\ [][NextDocumentCache]_cache_dir

\* C18: after every completed set the total size of the cached files is at
\* most max_size_bytes.
C18_TotalWithinLimit ==
    (cache_dir.op = "set" /\ cache_dir.result = TRUE) =>
        total_size(cache_dir.files) <= max_size_bytes

\* ---------------------------------- processors/cache.py, MemoryCache
\* MemoryCache(max_items).max_items
max_items == MaxItems

\* _get_key of the documents that are cached
MemoryKeys == {"A", "B", "C", "D"}

\* list.remove(key): the first occurrence is deleted
RECURSIVE ListRemove(_, _)
ListRemove(list, key) ==
    IF list = <<>> THEN list
    ELSE IF Head(list) = key THEN Tail(list)
    ELSE <<Head(list)>> \o ListRemove(Tail(list), key)

\* The entries of the cache in the order of their last use (a set or a
\* successful get), the least recently used first, after key is used.
Used(used, key) == Append(SelectSeq(used, LAMBDA k : k # key), key)

\* MemoryCache.__init__
MemoryCacheNew ==
    [_cache |-> {}, _access_order |-> <<>>, used |-> <<>>,
     op |-> "init", key |-> None, evicted |-> <<>>, lru |-> <<>>,
     raised |-> "no"]

\* "while len(self._cache) >= self.max_items": pop the head of
\* _access_order and delete it from _cache.  pop(0) of the empty list
\* raises IndexError and del of a key that is not cached raises KeyError;
\* the list stays popped.
RECURSIVE MakeRoom(_)
MakeRoom(m) ==
    IF Cardinality(m._cache) < max_items THEN m
    ELSE IF m._access_order = <<>> THEN [m EXCEPT !.raised = "IndexError"]
    ELSE LET oldest_key == Head(m._access_order)
             popped     == [m EXCEPT !._access_order = Tail(@)]
         IN IF oldest_key \notin m._cache
            THEN [popped EXCEPT !.raised = "KeyError"]
            ELSE MakeRoom([popped EXCEPT
                             !._cache = @ \ {oldest_key},
                             !.used = SelectSeq(@, LAMBDA k : k # oldest_key),
                             !.evicted = Append(@, oldest_key)])

\* MemoryCache.set
memory_set(m, key) ==
    LET start == [m EXCEPT !.op = "set", !.key = key, !.evicted = <<>>,
                           !.lru = m.used, !.raised = "no"]
        room  == MakeRoom(start)
    IN IF room.raised # "no" THEN room
       ELSE [room EXCEPT !._cache = @ \cup {key},
                         !._access_order = Append(@, key),
                         !.used = Used(@, key)]

\* MemoryCache.get
memory_get(m, key) ==
    LET start == [m EXCEPT !.op = "get", !.key = key, !.evicted = <<>>,
                           !.lru = m.used, !.raised = "no"]
    IN IF key \in m._cache
       THEN [start EXCEPT !._access_order = Append(ListRemove(@, key), key),
                          !.used = Used(@, key)]
       ELSE start

\* MemoryCache.clear
memory_clear(m) ==
    [m EXCEPT !.op = "clear", !.key = None, !.evicted = <<>>, !.lru = m.used,
              !.raised = "no", !._cache = {}, !._access_order = <<>>,
              !.used = <<>>]

\* ------------------------------------- specification of MemoryCache
InitMemoryCache ==
    /\ memory = MemoryCacheNew
    /\ EngineUnused /\ ParserUnused /\ GeometryUnused
    /\ BatchUnused /\ DocumentCacheUnused
    /\ RulesUnused /\ RendererUnused /\ ProcessorUnused /\ WorkersUnused

MemoryCacheSet(key) ==
    /\ Len(memory._access_order) < MaxOrderLen
    /\ memory' = memory_set(memory, key)
    /\ UNCHANGED outside_memory_cache

MemoryCacheGet(key) ==
    /\ memory' = memory_get(memory, key)
    /\ UNCHANGED outside_memory_cache

MemoryCacheClear ==
    /\ memory' = memory_clear(memory)
    /\ UNCHANGED outside_memory_cache

NextMemoryCache ==
    \/ \E key \in MemoryKeys : MemoryCacheSet(key)
    \/ \E key \in MemoryKeys : MemoryCacheGet(key)
    \/ MemoryCacheClear

SpecMemoryCache == InitMemoryCache /\ [][NextMemoryCache]_memory

\* C19: the cache never holds more than max_items documents, get and set
\* complete without raising, and the entries a set removes from the cache
\* (other than the one it stores) are the least recently used ones,
\* counting every set and successful get as a use.
C19_BoundedLRU ==
    /\ Cardinality(memory._cache) <= max_items
    /\ memory.raised = "no"
    /\ memory.op = "set" =>
          LET gone   == SelectSeq(memory.evicted, LAMBDA k : k # memory.key)
              others == SelectSeq(memory.lru, LAMBDA k : k # memory.key)
          IN /\ Len(gone) <= Len(others)
             /\ gone = SubSeq(others, 1, Len(gone))

\* C28: no get or set raises, and _access_order lists exactly the keys of
\* _cache, each of them once.
C28_AccessOrderMatchesCache ==
    /\ memory.raised = "no"
    /\ {memory._access_order[i] : i \in 1..Len(memory._access_order)} = memory._cache
    /\ Len(memory._access_order) = Cardinality(memory._cache)

\* ------------------------------------ HeadingRule and PageNumberRule alone
\* A rule of the catalogue applied once to one document structure, as
\* RulesEngine.check_document calls rule.check(doc_structure).
MaxRulePages == 2

\* a heading below the allowed band
FarHeadingBlock ==
    Block("heading", "Title", Bbox(85, 300, 500, 320),
          <<Span("Times New Roman", 160, "#000000")>>, FALSE, 0)
\* a block of digits in the middle of the page, outside the number band
MidNumberBlock(txt) ==
    Block("paragraph", txt, Bbox(290, 400, 300, 412),
          <<Span("Times New Roman", 140, "#000000")>>, FALSE, 0)

\* the headings of a sampled page, and the blocks that may carry its number
HeadingParts ==
    {<<>>, <<HeadingBlock>>, <<LowHeadingBlock>>, <<FarHeadingBlock>>,
     <<HeadingBlock, FarHeadingBlock>>}
NumberParts ==
    {<<>>, <<NumberBlock("1")>>, <<NumberBlock("2")>>, <<NumberBlock("sup2")>>,
     <<NumberBlock("2"), NumberBlock("1")>>, <<MidNumberBlock("1")>>}
RulePageContents ==
    {heading \o <<GoodBlock>> \o number : heading \in HeadingParts, number \in NumberParts}

\* the structures the rules are applied to: at most MaxRulePages pages
\* numbered from 1 as the parsers number them, or from 0 (the page number a
\* rule reads from a page whose info has none)
RuleStructures ==
    UNION {{DictStructure([i \in 1..n |-> Page(first + i - 1, f[i])])
              : f \in [1..n -> RulePageContents]}
           : n \in 1..MaxRulePages, first \in {0, 1}}

NoRuleRun == [op |-> "none"]

InitRules ==
    /\ rule_run = NoRuleRun
    /\ EngineUnused /\ ParserUnused /\ GeometryUnused /\ BatchUnused
    /\ DocumentCacheUnused /\ MemoryCacheUnused
    /\ RendererUnused /\ ProcessorUnused /\ WorkersUnused

\* HeadingRule().check(document_structure)
HeadingRuleCheck(structure) ==
    /\ rule_run = NoRuleRun
    /\ rule_run' = [op |-> "heading", structure |-> structure,
                    check |-> RuleCheck(HeadingRule, structure)]
    /\ UNCHANGED outside_rules

\* PageNumberRule().check(document_structure)
PageNumberRuleCheck(structure) ==
    /\ rule_run = NoRuleRun
    /\ rule_run' = [op |-> "page_number", structure |-> structure,
                    check |-> RuleCheck(PageNumberRule, structure)]
    /\ UNCHANGED outside_rules

NextRules ==
    \/ \E structure \in RuleStructures : HeadingRuleCheck(structure)
    \/ \E structure \in RuleStructures : PageNumberRuleCheck(structure)

SpecRules == InitRules /\ [][NextRules]_rule_run

\* ------------------------------------------------- properties (rules)
\* the errors a returned check reported for the page numbered n
ErrorsOnPage(n) ==
    SelectSeq(rule_run.check.result.errors, LAMBDA e : e.page_number = n)

\* the first heading block of a page
MainHeading(page) ==
    SelectSeq(page.blocks, LAMBDA b : b.block_type = "heading")[1]

\* C23: every finding of the Heading rule has severity error or info: a
\* heading whose Y position is outside the allowed band is an error, one
\* inside the allowed band but outside the expected band is an info, one
\* inside the expected band gives no finding, and a missing heading on the
\* first page is reported with one of these two severities.
C23_HeadingSeverities ==
    rule_run.op = "heading" =>
       LET errors == rule_run.check.result.errors
           st_pages == rule_run.structure.pages
       IN /\ ~ rule_run.check.raised
          /\ \A i \in 1..Len(errors) : errors[i].severity \in {"error", "info"}
          /\ \A k \in 1..Len(st_pages) :
                LET page == st_pages[k]
                    found == ErrorsOnPage(page.info.page_number)
                IN IF \E j \in 1..Len(page.blocks) : page.blocks[j].block_type = "heading"
                   THEN LET y0 == MainHeading(page).bbox.y0
                        IN IF y0 < AllowedYMin \/ y0 > AllowedYMax
                           THEN Len(found) = 1 /\ found[1].severity = "error"
                           ELSE IF y0 < ExpectedYMin \/ y0 > ExpectedYMax
                           THEN Len(found) = 1 /\ found[1].severity = "info"
                           ELSE found = <<>>
                   ELSE IF page.info.page_number = 1
                        THEN Len(found) = 1 /\ found[1].severity \in {"error", "info"}
                        ELSE found = <<>>

\* a block of the page's number band (the tolerance included) that holds
\* only digits and whose number is the one expected for the page
MatchingNumberBlock(page) ==
    \E j \in 1..Len(page.blocks) :
       LET b == page.blocks[j] IN
       /\ PositionYMin - PositionTolerance <= b.bbox.y0
       /\ b.bbox.y0 <= PositionYMax + PositionTolerance
       /\ IsDigit(b.text) /\ ~ IntRaises(b.text)
       /\ IntOf(b.text) = StartNumber + (page.info.page_number - StartPage)

\* C24: the PageNumber rule accepts a page numbered at or after the start
\* page exactly when the page has a digit-only block inside the Y band
\* whose number is start_number + (page_number - start_page); otherwise it
\* reports exactly one error for that page; a page before the start page
\* is never reported.
C24_PageNumberAccepts ==
    rule_run.op = "page_number" =>
       /\ ~ rule_run.check.raised
       /\ \A k \in 1..Len(rule_run.structure.pages) :
             LET page == rule_run.structure.pages[k]
                 found == ErrorsOnPage(page.info.page_number)
             IN IF page.info.page_number < StartPage THEN found = <<>>
                ELSE IF MatchingNumberBlock(page) THEN found = <<>>
                ELSE Len(found) = 1

\* ------------------------------------------- services/error_renderer.py
\* ErrorRenderer.render_errors_on_page on the image files of one page.  An
\* image file is given by the error numbers drawn on the page image.
MaxRenderErrors == 2
MaxDrawn == 2

\* a path: the folder of the document, the folder of the file in it, and
\* the file name in parts
Path(top, dir, name) == [top |-> top, dir |-> dir, name |-> name]

\* os.path.join(dirname(dirname(image_path)), "errors", "errors_" + basename)
DefaultOutputPath(image_path) ==
    Path(image_path.top, "errors", <<"errors_">> \o image_path.name)

SourcePath == Path("uploads/doc", "pages", <<"page_0001.png">>)
OtherPath == Path("report", "out", <<"page_1.png">>)
ImagePaths == {SourcePath, DefaultOutputPath(SourcePath), OtherPath}

Missing == [exists |-> FALSE, drawn |-> <<>>]
Image(drawn) == [exists |-> TRUE, drawn |-> drawn]

\* the DocumentError rows of the page: with a box, without one (bbox_x0 is
\* None), or with a box that has no width
ErrorBoxes == {"box", "none", "flat"}
PageErrors ==
    UNION {{[i \in 1..n |-> [error_number |-> i, bbox |-> f[i]]]
              : f \in [1..n -> ErrorBoxes]}
           : n \in 0..MaxRenderErrors}

\* the loop over the errors with _draw_error: an error without bbox_x0 is
\* skipped, _draw_error returns before drawing when x1 <= x0 or y1 <= y0
RECURSIVE DrawErrors(_, _)
DrawErrors(drawn, errors) ==
    IF errors = <<>> THEN drawn
    ELSE DrawErrors(IF Head(errors).bbox = "box"
                    THEN Append(drawn, Head(errors).error_number)
                    ELSE drawn,
                    Tail(errors))

\* render_errors_on_page saving over the image it opened when no
\* output_path is given
render_errors_on_page_in_place(files, image_path, errors, output_path) ==
    IF ~ files[image_path].exists
    THEN [files |-> files, result |-> image_path]
    ELSE LET image == Image(DrawErrors(files[image_path].drawn, errors))
             saved == IF output_path = None THEN image_path
                      ELSE output_path[1]
         IN [files |-> [files EXCEPT ![saved] = image], result |-> saved]

\* render_errors_on_page(page, errors, output_path) on the files
render_errors_on_page(files, image_path, errors, output_path) ==
    IF ~ files[image_path].exists
    THEN [files |-> files, result |-> image_path]
    ELSE LET image == Image(DrawErrors(files[image_path].drawn, errors))
             saved == IF output_path = None THEN DefaultOutputPath(image_path)
                      ELSE output_path[1]
         IN [files |-> [files EXCEPT ![saved] = image], result |-> saved]

InitRenderer ==
    /\ \E exists \in BOOLEAN, errors \in PageErrors :
          renderer = [files |-> [path \in ImagePaths |->
                                    IF path = SourcePath /\ exists THEN Image(<<>>)
                                    ELSE Missing],
                      stored |-> errors,
                      op |-> "none", output_path |-> None, result |-> SourcePath]
    /\ EngineUnused /\ ParserUnused /\ GeometryUnused /\ BatchUnused
    /\ DocumentCacheUnused /\ MemoryCacheUnused
    /\ RulesUnused /\ ProcessorUnused /\ WorkersUnused

\* renderer.render_errors_on_page(page, page_errors[, output_path]) with
\* the stored errors of the page
RenderErrorsOnPage(output_path) ==
    /\ Len(renderer.files[SourcePath].drawn) < MaxDrawn
    /\ LET done == render_errors_on_page(renderer.files, SourcePath,
                                         renderer.stored, output_path)
       IN renderer' = [renderer EXCEPT !.files = done.files,
                                       !.op = "render",
                                       !.output_path = output_path,
                                       !.result = done.result]
    /\ UNCHANGED outside_renderer

NextRenderer ==
    \E output_path \in {None, <<OtherPath>>, <<SourcePath>>} :
       RenderErrorsOnPage(output_path)

SpecRenderer == InitRenderer /\ [][NextRenderer]_renderer

\* ---------------------------------------------- properties (renderer)
\* the error numbers a call drew: what the written image shows after what
\* the opened image showed
NewlyDrawn(before, after) == SubSeq(after.drawn, Len(before.drawn) + 1, Len(after.drawn))

\* the written image is the opened one with errors drawn on it, only errors
\* that have a bbox among them and every error with a proper box
DrawnFromBoxes(before, after, errors) ==
    /\ after.exists
    /\ Len(after.drawn) >= Len(before.drawn)
    /\ SubSeq(after.drawn, 1, Len(before.drawn)) = before.drawn
    /\ \A i \in 1..Len(NewlyDrawn(before, after)) :
          \E k \in 1..Len(errors) :
             /\ errors[k].error_number = NewlyDrawn(before, after)[i]
             /\ errors[k].bbox # "none"
    /\ \A k \in 1..Len(errors) :
          errors[k].bbox = "box" =>
             \E i \in 1..Len(NewlyDrawn(before, after)) :
                NewlyDrawn(before, after)[i] = errors[k].error_number

MaxVersions == 3

\* st_size of the file after a rewrite
FileSizes == {10, 11}

\* the file: the version of its content, st_size and st_mtime (every
\* rewrite moves st_mtime forward)
SourceFile(version, size, mtime) == [version |-> version, size |-> size, mtime |-> mtime]

\* DocumentCache._get_cache_key: the digest of "{resolved path}:{st_size}:
\* {st_mtime}" of the file as it is now, given by what is digested
_get_cache_key(file) ==
    [path |-> "/docs/a.pdf", size |-> file.size, mtime |-> file.mtime]

\* len of the JSON text of the parsed document of a version
JsonSize(version) == 2 + (version % 2)

\* ParserFactory.parse reads the file as it is now; the ParsedDocument is
\* given by the version it was parsed from
ParsedFrom(file) == [version |-> file.version]

NoCall == [op |-> "none", doc |-> ParsedFrom(SourceFile(0, 0, 0)), hit |-> FALSE,
           use_cache |-> FALSE, file |-> SourceFile(0, 0, 0), rewritten |-> FALSE]

InitProcessor ==
    /\ \E size \in FileSizes :
          processor = [file |-> SourceFile(1, size, 1),
                       files |-> <<>>,
                       contents |-> <<>>,
                       pc |-> "idle", use_cache |-> FALSE,
                       doc |-> ParsedFrom(SourceFile(0, 0, 0)),
                       rewritten |-> FALSE,
                       last |-> NoCall]
    /\ EngineUnused /\ ParserUnused /\ GeometryUnused /\ BatchUnused
    /\ DocumentCacheUnused /\ MemoryCacheUnused
    /\ RulesUnused /\ RendererUnused /\ WorkersUnused

\* the document read from the cache file of a key
CachedDocument(contents, key) ==
    (CHOOSE entry \in {contents[i] : i \in 1..Len(contents)} : entry.key = key).doc

\* the cache files' texts after a set: one text per file of the directory
Written(contents, files, key, doc) ==
    SelectSeq(contents, LAMBDA entry : entry.key # key /\ Exists(files, entry.key))
       \o <<[key |-> key, doc |-> doc]>>

\* process returns document
Return(doc, hit) ==
    [op |-> "process", doc |-> doc, hit |-> hit,
     use_cache |-> processor.use_cache, file |-> processor.file,
     rewritten |-> processor.rewritten]

\* process(filepath, use_cache) up to the end of "Try cache first":
\* self.cache.get(filepath) returns the document of the key of the file as
\* it is now, and process returns it; otherwise the file is to be parsed
ProcessTryCache(use_cache) ==
    /\ processor.pc = "idle"
    /\ LET key == _get_cache_key(processor.file)
           hit == use_cache /\ Exists(processor.files, key)
       IN processor' =
            IF hit
            THEN [processor EXCEPT
                    !.use_cache = use_cache,
                    !.rewritten = FALSE,
                    !.last = [op |-> "process",
                              doc |-> CachedDocument(processor.contents, key),
                              hit |-> TRUE, use_cache |-> use_cache,
                              file |-> processor.file, rewritten |-> FALSE]]
            ELSE [processor EXCEPT !.use_cache = use_cache,
                                   !.rewritten = FALSE,
                                   !.pc = "parse",
                                   !.last = NoCall]
    /\ UNCHANGED outside_processor

\* doc = ParserFactory.parse(filepath)
ProcessParse ==
    /\ processor.pc = "parse"
    /\ processor' = [processor EXCEPT !.doc = ParsedFrom(processor.file),
                                      !.pc = "store"]
    /\ UNCHANGED outside_processor

\* "Store in cache" and return doc: self.cache.set(filepath, doc) takes
\* the key of the file as it is now
ProcessStore ==
    /\ processor.pc = "store"
    /\ LET key == _get_cache_key(processor.file)
           files == IF processor.use_cache
                    THEN cache_set(processor.files, key, JsonSize(processor.doc.version))
                    ELSE processor.files
       IN processor' = [processor EXCEPT
                          !.files = files,
                          !.contents = IF processor.use_cache
                                       THEN Written(@, files, key, processor.doc)
                                       ELSE @,
                          !.pc = "idle",
                          !.last = Return(processor.doc, FALSE)]
    /\ UNCHANGED outside_processor

\* another program rewrites the file
RewriteFile(size) ==
    /\ processor.file.version < MaxVersions
    /\ processor' = [processor EXCEPT
                       !.file = SourceFile(@.version + 1, size, @.mtime + 1),
                       !.rewritten = processor.pc # "idle",
                       !.last = IF processor.pc = "idle" THEN NoCall ELSE @]
    /\ UNCHANGED outside_processor

NextProcessor ==
    \/ \E use_cache \in BOOLEAN : ProcessTryCache(use_cache)
    \/ ProcessParse
    \/ ProcessStore
    \/ \E size \in FileSizes : RewriteFile(size)

SpecProcessor == InitProcessor /\ [][NextProcessor]_processor

\* --------------------------------------------- properties (processor)
\* C27: a cache entry is returned only while the file's resolved path, size
\* and mtime are the ones it was stored under: a call of process with the
\* cache never returns the document of an older version of the file from
\* the cache; a call that finds no entry for the file as it is parses it
\* and stores the new document, and a call that finds one returns it
\* without parsing.
C27_NoStaleDocument ==
    (processor.last.op = "process" /\ processor.last.use_cache) =>
       /\ processor.last.hit =>
             processor.last.doc = ParsedFrom(processor.last.file)
       /\ (~ processor.last.hit /\ ~ processor.last.rewritten) =>
             /\ processor.last.doc = ParsedFrom(processor.last.file)
             /\ Exists(processor.files, _get_cache_key(processor.last.file))
             /\ CachedDocument(processor.contents,
                               _get_cache_key(processor.last.file)) = processor.last.doc

\* ------------------------------------------------ utils/page_processor.py
\* The worker threads of PageProcessor on the pages of one document.  Each
\* thread has its own database session; a step is one statement or one
\* commit on the database, which the threads share.
MaxDocPages == 2

\* PageProcessor.num_workers
num_workers == 2

Idle == [pc |-> "idle", page |-> 0, all_pages_processed |-> FALSE,
         all_completed |-> FALSE]

InitWorkers ==
    /\ \E n \in 1..MaxDocPages :
          workers = [status |-> [i \in 1..n |-> "queued"],
                     all_pages_processed |-> FALSE,
                     gost_check_completed |-> FALSE,
                     gost_reports |-> 0,
                     task_queue |-> [i \in 1..n |-> i],
                     worker |-> [w \in 1..num_workers |-> Idle],
                     gost |-> <<>>]
    /\ EngineUnused /\ ParserUnused /\ GeometryUnused /\ BatchUnused
    /\ DocumentCacheUnused /\ MemoryCacheUnused
    /\ RulesUnused /\ RendererUnused /\ ProcessorUnused

\* _worker: task_queue.get(); _process_page sets the page to PROCESSING
\* and commits
TakeTask(w) ==
    /\ workers.worker[w].pc = "idle"
    /\ workers.task_queue # <<>>
    /\ workers' = [workers EXCEPT
                     !.task_queue = Tail(@),
                     !.status[Head(workers.task_queue)] = "processing",
                     !.worker[w] = [Idle EXCEPT !.pc = "processing",
                                                !.page = Head(workers.task_queue)]]
    /\ UNCHANGED outside_workers

\* _process_page: the blocks are saved, the page is set to COMPLETED and
\* committed; or an exception sets it to ERROR
FinishPage(w, ok) ==
    /\ workers.worker[w].pc = "processing"
    /\ workers' = [workers EXCEPT
                     !.status[workers.worker[w].page] =
                        IF ok THEN "completed" ELSE "error",
                     !.worker[w] = IF ok THEN [@ EXCEPT !.pc = "check"] ELSE Idle]
    /\ UNCHANGED outside_workers

\* _check_all_pages_processed: document = db.get(Document, document_id)
ReadDocument(w) ==
    /\ workers.worker[w].pc = "check"
    /\ workers' = [workers EXCEPT
                     !.worker[w] = [@ EXCEPT !.pc = "pages",
                                             !.all_pages_processed =
                                                workers.all_pages_processed]]
    /\ UNCHANGED outside_workers

\* pages = db.query(Page)...all(); all_completed = all(...)
ReadPages(w) ==
    /\ workers.worker[w].pc = "pages"
    /\ workers' = [workers EXCEPT
                     !.worker[w] = [@ EXCEPT !.pc = "decide",
                                             !.all_completed =
                                                \A i \in DOMAIN workers.status :
                                                   workers.status[i] = "completed"]]
    /\ UNCHANGED outside_workers

\* if all_completed and not document.all_pages_processed: the flag is set
\* and committed and the thread of _check_gost_compliance is started
StartsCheck(worker) == worker.all_completed /\ ~ worker.all_pages_processed

Decide(w) ==
    /\ workers.worker[w].pc = "decide"
    /\ workers' = [workers EXCEPT
                     !.all_pages_processed = @ \/ StartsCheck(workers.worker[w]),
                     !.gost = IF StartsCheck(workers.worker[w])
                              THEN Append(@, "started") ELSE @,
                     !.worker[w] = Idle]
    /\ UNCHANGED outside_workers

\* _check_gost_compliance: document = db.get(...); return if
\* document.gost_check_completed
GostBegin(t) ==
    /\ workers.gost[t] = "started"
    /\ workers' = [workers EXCEPT
                     !.gost[t] = IF workers.gost_check_completed THEN "returned"
                                 ELSE "running"]
    /\ UNCHANGED outside_workers

\* db.add(GOSTReport(document_id=...)); document.gost_check_completed =
\* True; db.commit(): gost_reports.document_id is unique, a second row
\* raises IntegrityError, which the except clause logs
GostSave(t) ==
    /\ workers.gost[t] = "running"
    /\ workers' = IF workers.gost_reports = 0
                  THEN [workers EXCEPT !.gost_reports = 1,
                                       !.gost_check_completed = TRUE,
                                       !.gost[t] = "saved"]
                  ELSE [workers EXCEPT !.gost[t] = "raised"]
    /\ UNCHANGED outside_workers

NextWorkers ==
    \/ \E w \in 1..num_workers : TakeTask(w)
    \/ \E w \in 1..num_workers, ok \in BOOLEAN : FinishPage(w, ok)
    \/ \E w \in 1..num_workers : ReadDocument(w)
    \/ \E w \in 1..num_workers : ReadPages(w)
    \/ \E w \in 1..num_workers : Decide(w)
    \/ \E t \in 1..Len(workers.gost) : GostBegin(t)
    \/ \E t \in 1..Len(workers.gost) : GostSave(t)

SpecWorkers == InitWorkers /\ [][NextWorkers]_workers

\* ----------------------------------------------- properties (workers)
\* C30: with several page workers finishing the last pages of a document
\* concurrently, the GOST check is started at most once for the document
\* and at most one GOSTReport is stored for it; and once every page is
\* COMPLETED and the workers have left _process_page, the check has been
\* started.
C30_GostCheckOnce ==
    /\ Len(workers.gost) <= 1
    /\ workers.gost_reports <= 1
    /\ (/\ \A i \in DOMAIN workers.status : workers.status[i] = "completed"
        /\ \A w \in 1..num_workers : workers.worker[w].pc = "idle")
          => Len(workers.gost) >= 1

====
